---- MODULE Spec2Model ----
(***************************************************************************)
(* State-machine model of the client-side file store: the IndexedDB record *)
(* store with its byParentId index, the trigram name index with its        *)
(* singleflight per-parent builder, scoped search, offset pagination and   *)
(* the clipboard mutations of the file table.                              *)
(*                                                                         *)
(* Names are sequences of one-character strings.  Record ids are positive  *)
(* integers ordered as IndexedDB orders keys; 0 is the root parent "0".    *)
(* One action is one run of JavaScript between two awaits, or one          *)
(* IndexedDB transaction (atomic and isolated).                            *)
(***************************************************************************)
EXTENDS Integers, Sequences, FiniteSets, TLC

VARIABLES
    store,             \* object store "files": set of records, unique by id
    byParentId,        \* index byParentId: set of <<parent_id, id>> entries
    nameIndex,         \* object store of postings, unique by (token, fileId)
    indexedParents,    \* module-level Set of parent keys already indexed
    indexingInFlight,  \* module-level Map parent key -> build promise (0: none)
    builds,            \* every indexingPromise created so far, in order
    calls,             \* the pending ensureParentIndexed / search calls
    batch,             \* the batchInsert call in progress
    pager,             \* a client paging through getFilesByParentId
    files,             \* view model: the displayed page
    totalCount,        \* view model: the displayed total
    clipboard,         \* view model: clipboard items (<<>> with op "none": null)
    clipboardOperation,\* view model: "copy" | "cut" | "none"
    currentParentId,   \* useFileExplorer state: the folder being shown
    tableParentId,     \* FileTable's currentParentId prop (Undefined: not passed)
    selectedRows,      \* ids ticked in the table
    filteredFiles,     \* table state: search result shown instead of files
    filterActive,      \* table state: filteredFiles is not null
    ui,                \* the paste / delete handler in progress
    nav,               \* useFileExplorer: request counter, flags, pending loads
    ingest,            \* the ingestion worker's run
    reads,             \* a caller of one of the read functions
    schema,            \* the database's stored version, stores and indexes
    search,            \* FileTable's filter text and its search requests
    boot               \* useIndexedDbBootstrap: the page's bootstrap

dbVars == <<store, byParentId, nameIndex>>
clientVars == <<batch, pager, nav, ingest, reads>>
idxVars == <<indexedParents, indexingInFlight, builds, calls>>
viewVars == <<files, totalCount, clipboard, clipboardOperation,
              currentParentId, tableParentId, selectedRows, filteredFiles,
              filterActive, ui>>
vars == <<store, byParentId, nameIndex, indexedParents, indexingInFlight,
          builds, calls, batch, pager, files, totalCount, clipboard,
          clipboardOperation, currentParentId, tableParentId, selectedRows,
          filteredFiles, filterActive, ui, nav, ingest, reads, schema, search,
          boot>>

(***************************************************************************)
(* Bounds of the model and constants of the program.                       *)
(***************************************************************************)
MaxId == 2
MaxCallers == 2
MaxBuilds == 2
MaxItems == 2
MaxCopies == 1
MaxLoads == 3
MaxLen == 5
\* FlushAt stands for the worker's 10000 buffered items, WorkerBatchSize for
\* batchInsert's default batchSize of 1000
FlushAt == 2
WorkerBatchSize == 1
MaxRequests == 4
MaxBoots == 2
MaxPastes == 4

TRIGRAM_SIZE == 3
INDEX_BUILD_BATCH_SIZE == 1000
INITIAL_BATCH_SIZE == 75
BATCH_SIZE == 75
PREFETCH_THRESHOLD == 10
SEARCH_LIMIT == 5000

Root == 0
Undefined == 0 - 1
Ids == 1..MaxId
Callers == 1..MaxCallers
IdxParents == {Root, 1}

(***************************************************************************)
(* Strings.                                                                *)
(***************************************************************************)
Lower(ch) == IF ch = "A" THEN "a" ELSE IF ch = "B" THEN "b"
             ELSE IF ch = "C" THEN "c" ELSE ch

ToLowerCase(s) == [i \in 1..Len(s) |-> Lower(s[i])]

RECURSIVE TrimStart(_)
TrimStart(s) == IF s # <<>> /\ Head(s) = " " THEN TrimStart(Tail(s)) ELSE s

RECURSIVE TrimEnd(_)
TrimEnd(s) == IF s # <<>> /\ s[Len(s)] = " "
              THEN TrimEnd(SubSeq(s, 1, Len(s) - 1)) ELSE s

Trim(s) == TrimEnd(TrimStart(s))

\* String.prototype.includes: q occurs in s as a contiguous substring
Includes(s, q) ==
    \E i \in 0..(Len(s) - Len(q)) : SubSeq(s, i + 1, i + Len(q)) = q

Range(s) == {s[i] : i \in 1..Len(s)}

\* the elements of a set of integers as an ascending sequence
RECURSIVE SortedSeq(_)
SortedSeq(S) ==
    IF S = {} THEN <<>>
    ELSE LET m == CHOOSE x \in S : \A y \in S : x <= y
         IN <<m>> \o SortedSeq(S \ {m})

Min(a, b) == IF a < b THEN a ELSE b
Max(a, b) == IF a > b THEN a ELSE b

(***************************************************************************)
(* buildTrigrams: the distinct 3-character windows of the trimmed,         *)
(* lower-cased name, in order of first occurrence.                         *)
(***************************************************************************)
\* AddTrigrams into an array instead of a Set: a repeated window is kept
RECURSIVE AddTrigramsArray(_, _, _)
AddTrigramsArray(normalized, i, tokens) ==
    IF i > Len(normalized) - TRIGRAM_SIZE THEN tokens
    ELSE AddTrigramsArray(normalized, i + 1,
             Append(tokens, SubSeq(normalized, i + 1, i + TRIGRAM_SIZE)))

RECURSIVE AddTrigrams(_, _, _)
AddTrigrams(normalized, i, tokens) ==
    IF i > Len(normalized) - TRIGRAM_SIZE THEN tokens
    ELSE LET t == SubSeq(normalized, i + 1, i + TRIGRAM_SIZE)
         IN AddTrigrams(normalized, i + 1,
                        IF t \in Range(tokens) THEN tokens
                        ELSE Append(tokens, t))

buildTrigrams(name) ==
    LET normalized == ToLowerCase(Trim(name))
    IN IF Len(normalized) < TRIGRAM_SIZE THEN <<>>
       ELSE AddTrigrams(normalized, 0, <<>>)

(***************************************************************************)
(* The object stores.  put upserts by key path; the byParentId index holds *)
(* one entry per record, keyed by the record's parent_id.                  *)
(***************************************************************************)
Rec(id, parent, name) == [id |-> id, parent_id |-> parent, name |-> name]

HasId(S, id) == \E r \in S : r.id = id
Get(S, id) == CHOOSE r \in S : r.id = id

\* StorePut as an add: a record whose id is taken is not written
StorePutIfAbsent(db, item) ==
    IF HasId(db.files, item.id) THEN db
    ELSE [files |-> db.files \cup {item},
          byParentId |-> db.byParentId \cup {<<item.parent_id, item.id>>}]

\* StorePut with an index that keeps the entry of the record it replaces
StorePutKeepEntry(db, item) ==
    [files |-> {r \in db.files : r.id # item.id} \cup {item},
     byParentId |-> db.byParentId \cup {<<item.parent_id, item.id>>}]

StorePut(db, item) ==
    [files |-> {r \in db.files : r.id # item.id} \cup {item},
     byParentId |-> {e \in db.byParentId : e[2] # item.id}
                      \cup {<<item.parent_id, item.id>>}]

StoreDelete(db, id) ==
    [files |-> {r \in db.files : r.id # id},
     byParentId |-> {e \in db.byParentId : e[2] # id}]

RECURSIVE PutAll(_, _)
PutAll(db, items) ==
    IF items = <<>> THEN db ELSE PutAll(StorePut(db, Head(items)), Tail(items))

RECURSIVE DeleteAll(_, _)
DeleteAll(db, ids) ==
    IF ids = <<>> THEN db ELSE DeleteAll(StoreDelete(db, Head(ids)), Tail(ids))

Db == [files |-> store, byParentId |-> byParentId]

\* the cursor of index byParentId over one key: primary keys ascending
ChildIds(ix, parentId) == SortedSeq({e[2] : e \in {x \in ix : x[1] = parentId}})

(***************************************************************************)
(* The readers of the record store.                                        *)
(***************************************************************************)
\* index.count(parentId)
countChildrenByParentId(ix, parentId) ==
    Cardinality({e \in ix : e[1] = parentId})

\* CollectPage with the test of line 210 made after the push
RECURSIVE CollectPageThenTest(_, _, _, _, _)
CollectPageThenTest(S, ids, pos, limit, items) ==
    IF pos > Len(ids) THEN items
    ELSE LET more == Append(items, Get(S, ids[pos]))
         IN IF Len(more) >= limit THEN more
            ELSE CollectPageThenTest(S, ids, pos + 1, limit, more)

\* lines 210-213: collect from the cursor until it ends or limit is reached
RECURSIVE CollectPage(_, _, _, _, _)
CollectPage(S, ids, pos, limit, items) ==
    IF pos > Len(ids) \/ Len(items) >= limit THEN items
    ELSE CollectPage(S, ids, pos + 1, limit, Append(items, Get(S, ids[pos])))

\* getFilesByParentId without lines 205-208: the cursor is never advanced
getFilesNoAdvance(S, ix, parentId, limit, offset) ==
    CollectPage(S, ChildIds(ix, parentId), 1, limit, <<>>)

\* lines 204-215: open the cursor on parentId, skip offset entries, collect
getFilesByParentId(S, ix, parentId, limit, offset) ==
    LET ids == ChildIds(ix, parentId)
        pos == IF ids # <<>> /\ offset > 0 THEN 1 + offset ELSE 1
    IN CollectPage(S, ids, pos, limit, <<>>)

getFileById(S, id) == IF HasId(S, id) THEN <<Get(S, id)>> ELSE <<>>

(***************************************************************************)
(* updateNameIndexForItems: one posting per distinct token per item id;    *)
(* the posting's parent is the parent_id of the first item with that id.   *)
(***************************************************************************)
Indexable(item) ==
    /\ Trim(item.name) # <<>>
    /\ item.id # 0
    /\ buildTrigrams(Trim(item.name)) # <<>>

updateNameIndexForItems(ix, items) ==
    LET eligible == {i \in 1..Len(items) : Indexable(items[i])}
        first(id) == CHOOSE i \in 1..Len(items) :
                        /\ items[i].id = id
                        /\ \A j \in 1..(i - 1) : items[j].id # id
        postings == UNION {
            {[token |-> t, fileId |-> items[i].id,
              parent_id |-> items[first(items[i].id)].parent_id]
                : t \in Range(buildTrigrams(Trim(items[i].name)))}
            : i \in eligible}
    IN {x \in ix : \A n \in postings :
                      ~(x.token = n.token /\ x.fileId = n.fileId)}
         \cup postings

(***************************************************************************)
(* ensureParentIndexed and its build (the async indexingPromise).          *)
(*   builds[b].state: "opening"   awaiting openFileDB()                    *)
(*                    "scanning"  the readwrite transaction is running     *)
(*                    "fulfilled" / "rejected": the promise has settled    *)
(*   calls[c].pc:     "idle", "awaiting" (the build promise), "done"       *)
(*                    (an ensureParentIndexed call has settled), "query"   *)
(*                    (a search got past its await), "searchDone",         *)
(*                    "searchRejected"                                     *)
(*   calls[c].ens:    outcome of the call's ensureParentIndexed            *)
(***************************************************************************)
Limits == {1, MaxId}

IdleCall == [kind |-> "none", pc |-> "idle", ens |-> "none", role |-> "none",
             p |-> Root, q |-> <<>>, limit |-> 0, build |-> 0,
             result |-> <<>>]

\* String(parentId): callers pass string ids, which String() leaves as they are
ParentKey(parentId) == parentId

Settled(b) == builds[b].state \in {"fulfilled", "rejected"}

\* a readwrite transaction over both stores excludes every other transaction
TxActive == \E b \in 1..Len(builds) : builds[b].state = "scanning"

\* promise reactions run before the next task is taken from the event loop
MicrotasksPending ==
    \E c \in Callers : calls[c].pc = "awaiting" /\ Settled(calls[c].build)

\* StartEnsure without lines 230-234: a call never joins a build in flight
StartEnsureNoJoin(c, kind, parentId, q, limit) ==
    LET parentKey == ParentKey(parentId)
        call == [IdleCall EXCEPT !.kind = kind, !.p = parentId, !.q = q,
                                 !.limit = limit]
    IN IF parentKey \in indexedParents
       THEN /\ calls' = [calls EXCEPT ![c] =
                   [call EXCEPT !.ens = "resolved", !.role = "memo",
                                !.pc = IF kind = "search" THEN "query"
                                       ELSE "done"]]
            /\ UNCHANGED <<indexingInFlight, builds>>
       ELSE /\ Len(builds) < MaxBuilds
            /\ builds' = Append(builds,
                                [parent |-> parentId, state |-> "opening"])
            /\ indexingInFlight' =
                   [indexingInFlight EXCEPT ![parentKey] = Len(builds) + 1]
            /\ calls' = [calls EXCEPT ![c] =
                   [call EXCEPT !.ens = "pending", !.role = "initiator",
                                !.pc = "awaiting", !.build = Len(builds) + 1]]

\* StartEnsure without line 228: the memo of indexed parents is not read
StartEnsureNoMemo(c, kind, parentId, q, limit) ==
    LET parentKey == ParentKey(parentId)
        existing == indexingInFlight[parentKey]
        call == [IdleCall EXCEPT !.kind = kind, !.p = parentId, !.q = q,
                                 !.limit = limit]
    IN IF existing # 0
       THEN /\ calls' = [calls EXCEPT ![c] =
                   [call EXCEPT !.ens = "pending", !.role = "joiner",
                                !.pc = "awaiting", !.build = existing]]
            /\ UNCHANGED <<indexingInFlight, builds>>
       ELSE /\ Len(builds) < MaxBuilds
            /\ builds' = Append(builds,
                                [parent |-> parentId, state |-> "opening"])
            /\ indexingInFlight' =
                   [indexingInFlight EXCEPT ![parentKey] = Len(builds) + 1]
            /\ calls' = [calls EXCEPT ![c] =
                   [call EXCEPT !.ens = "pending", !.role = "initiator",
                                !.pc = "awaiting", !.build = Len(builds) + 1]]

\* lines 227-234 and 236-271: the synchronous part of a call
StartEnsure(c, kind, parentId, q, limit) ==
    LET parentKey == ParentKey(parentId)
        existing == indexingInFlight[parentKey]
        call == [IdleCall EXCEPT !.kind = kind, !.p = parentId, !.q = q,
                                 !.limit = limit]
    IN IF parentKey \in indexedParents
       THEN /\ calls' = [calls EXCEPT ![c] =
                   [call EXCEPT !.ens = "resolved", !.role = "memo",
                                !.pc = IF kind = "search" THEN "query"
                                       ELSE "done"]]
            /\ UNCHANGED <<indexingInFlight, builds>>
       ELSE IF existing # 0
       THEN /\ calls' = [calls EXCEPT ![c] =
                   [call EXCEPT !.ens = "pending", !.role = "joiner",
                                !.pc = "awaiting", !.build = existing]]
            /\ UNCHANGED <<indexingInFlight, builds>>
       ELSE /\ Len(builds) < MaxBuilds
            /\ builds' = Append(builds,
                                [parent |-> parentId, state |-> "opening"])
            /\ indexingInFlight' =
                   [indexingInFlight EXCEPT ![parentKey] = Len(builds) + 1]
            /\ calls' = [calls EXCEPT ![c] =
                   [call EXCEPT !.ens = "pending", !.role = "initiator",
                                !.pc = "awaiting", !.build = Len(builds) + 1]]

EnsureCall(c, parentId) ==
    /\ calls[c].pc = "idle"
    /\ ~MicrotasksPending
    /\ StartEnsure(c, "ensure", parentId, <<>>, 0)
    /\ UNCHANGED <<indexedParents, nameIndex>>
    /\ UNCHANGED <<schema, search, boot, store, byParentId, clientVars, viewVars>>

\* the build got its database connection and opened its transaction
BuildOpenOk(b) ==
    /\ builds[b].state = "opening"
    /\ ~MicrotasksPending
    /\ ~TxActive
    /\ builds' = [builds EXCEPT ![b].state = "scanning"]
    /\ UNCHANGED <<indexedParents, indexingInFlight, calls, nameIndex>>
    /\ UNCHANGED <<schema, search, boot, store, byParentId, clientVars, viewVars>>

\* openFileDB() rejects: line 237 is outside the try, so no finally runs
BuildOpenFail(b) ==
    /\ builds[b].state = "opening"
    /\ ~MicrotasksPending
    /\ builds' = [builds EXCEPT ![b].state = "rejected"]
    /\ UNCHANGED <<indexedParents, indexingInFlight, calls, nameIndex>>
    /\ UNCHANGED <<schema, search, boot, store, byParentId, clientVars, viewVars>>

\* IndexBatches without lines 256-258: what is left of the last batch is
\* not written
RECURSIVE IndexBatchesFullOnly(_, _)
IndexBatchesFullOnly(ix, children) ==
    IF Len(children) < INDEX_BUILD_BATCH_SIZE THEN ix
    ELSE IndexBatchesFullOnly(
             updateNameIndexForItems(ix, SubSeq(children, 1,
                                                INDEX_BUILD_BATCH_SIZE)),
             SubSeq(children, INDEX_BUILD_BATCH_SIZE + 1, Len(children)))

\* lines 244-258: the cursor loop, in batches of INDEX_BUILD_BATCH_SIZE
RECURSIVE IndexBatches(_, _)
IndexBatches(ix, children) ==
    IF children = <<>> THEN ix
    ELSE LET n == Min(Len(children), INDEX_BUILD_BATCH_SIZE)
         IN IndexBatches(updateNameIndexForItems(ix, SubSeq(children, 1, n)),
                         SubSeq(children, n + 1, Len(children)))

ScanAndIndex(ix, parentId) ==
    LET ids == ChildIds(byParentId, parentId)
    IN IndexBatches(ix, [i \in 1..Len(ids) |-> Get(store, ids[i])])

\* lines 260-265: what runs once tx.done has resolved
FinishBuild(b) ==
    /\ indexedParents' = indexedParents \cup {ParentKey(builds[b].parent)}
    /\ indexingInFlight' =
           [indexingInFlight EXCEPT ![ParentKey(builds[b].parent)] = 0]
    /\ builds' = [builds EXCEPT ![b].state = "fulfilled"]

\* the transaction commits, then tx.done resolves
BuildCommit(b) ==
    /\ builds[b].state = "scanning"
    /\ ~MicrotasksPending
    /\ nameIndex' = ScanAndIndex(nameIndex, builds[b].parent)
    /\ FinishBuild(b)
    /\ UNCHANGED calls
    /\ UNCHANGED <<schema, search, boot, store, byParentId, clientVars, viewVars>>

\* lines 262-265 after a throw inside the try: the finally, then rejection
AbortBuild(b) ==
    /\ indexingInFlight' =
           [indexingInFlight EXCEPT ![ParentKey(builds[b].parent)] = 0]
    /\ builds' = [builds EXCEPT ![b].state = "rejected"]
    /\ UNCHANGED indexedParents

\* the transaction aborts (a cursor, put or commit error): nothing is written
BuildTxFail(b) ==
    /\ builds[b].state = "scanning"
    /\ ~MicrotasksPending
    /\ AbortBuild(b)
    /\ UNCHANGED <<calls, nameIndex>>
    /\ UNCHANGED <<schema, search, boot, store, byParentId, clientVars, viewVars>>

\* lines 232 and 270-274: the continuation of `await existing` /
\* `await indexingPromise`
EnsureOutcome(role, state) ==
    IF role = "initiator" THEN "resolved"
    ELSE IF state = "fulfilled" THEN "resolved" ELSE "rejected"

Resume(c) ==
    /\ calls[c].pc = "awaiting"
    /\ Settled(calls[c].build)
    /\ LET out == EnsureOutcome(calls[c].role, builds[calls[c].build].state)
       IN calls' = [calls EXCEPT ![c].ens = out,
                       ![c].pc = IF calls[c].kind = "ensure" THEN "done"
                                 ELSE IF out = "resolved" THEN "query"
                                 ELSE "searchRejected"]
    /\ UNCHANGED <<indexedParents, indexingInFlight, builds, nameIndex>>
    /\ UNCHANGED <<schema, search, boot, store, byParentId, clientVars, viewVars>>

\* the caller has consumed the outcome
Return(c) ==
    /\ calls[c].pc \in {"done", "searchDone", "searchRejected"}
    /\ ~MicrotasksPending
    /\ calls' = [calls EXCEPT ![c] = IdleCall]
    /\ UNCHANGED <<indexedParents, indexingInFlight, builds, nameIndex>>
    /\ UNCHANGED <<schema, search, boot, store, byParentId, clientVars, viewVars>>

(***************************************************************************)
(* searchFilesByNameAndParentId.                                           *)
(***************************************************************************)
\* CandidateIds reading index byToken instead of byTokenParent
CandidateIdsAnyParent(ix, tokens, parentId) ==
    {id \in {x.fileId : x \in ix} :
        \A i \in 1..Len(tokens) :
            \E x \in ix : x.token = tokens[i] /\ x.fileId = id}

\* lines 331-348: ids carrying every token of the query under this parent
CandidateIds(ix, tokens, parentId) ==
    {id \in {x.fileId : x \in ix} :
        \A i \in 1..Len(tokens) :
            [token |-> tokens[i], fileId |-> id, parent_id |-> parentId]
                \in ix}

\* lines 352-361: fetch and verify candidates until limit results are found
RECURSIVE CollectResults(_, _, _, _, _)
CollectResults(S, candidates, normalized, limit, results) ==
    IF candidates = <<>> \/ Len(results) >= limit THEN results
    ELSE LET id == Head(candidates)
         IN IF HasId(S, id)
                /\ Includes(ToLowerCase(Get(S, id).name), normalized)
            THEN CollectResults(S, Tail(candidates), normalized, limit,
                                Append(results, Get(S, id)))
            ELSE CollectResults(S, Tail(candidates), normalized, limit,
                                results)

SearchResults(S, ix, input, parentId, limit) ==
    LET normalized == ToLowerCase(Trim(input))
        tokens == buildTrigrams(normalized)
    IN IF tokens = <<>> THEN <<>>
       ELSE CollectResults(S, SortedSeq(CandidateIds(ix, tokens, parentId)),
                           normalized, limit, <<>>)

\* lines 313-316
\* SearchCall without lines 314-315: every query goes to the index
SearchCallNoThreshold(c, input, parentId, limit) ==
    /\ calls[c].pc = "idle"
    /\ ~MicrotasksPending
    /\ StartEnsure(c, "search", parentId, input, limit)
    /\ UNCHANGED <<indexedParents, nameIndex>>
    /\ UNCHANGED <<schema, search, boot, store, byParentId, clientVars, viewVars>>

SearchCall(c, input, parentId, limit) ==
    /\ calls[c].pc = "idle"
    /\ ~MicrotasksPending
    /\ LET normalized == ToLowerCase(Trim(input))
       IN IF Len(normalized) < TRIGRAM_SIZE
          THEN /\ calls' = [calls EXCEPT ![c] =
                      [IdleCall EXCEPT !.kind = "search", !.p = parentId,
                                       !.q = input, !.limit = limit,
                                       !.pc = "searchDone"]]
               /\ UNCHANGED <<indexingInFlight, builds>>
          ELSE StartEnsure(c, "search", parentId, input, limit)
    /\ UNCHANGED <<indexedParents, nameIndex>>
    /\ UNCHANGED <<schema, search, boot, store, byParentId, clientVars, viewVars>>

\* lines 318-363: the readonly transaction over both stores
SearchQuery(c) ==
    /\ calls[c].pc = "query"
    /\ ~MicrotasksPending
    /\ ~TxActive
    /\ calls' = [calls EXCEPT ![c].pc = "searchDone",
                    ![c].result = SearchResults(store, nameIndex, calls[c].q,
                                                calls[c].p, calls[c].limit)]
    /\ UNCHANGED <<indexedParents, indexingInFlight, builds, nameIndex>>
    /\ UNCHANGED <<schema, search, boot, store, byParentId, clientVars, viewVars>>

\* lines 364-366: an error inside the try yields the empty list
SearchQueryFail(c) ==
    /\ calls[c].pc = "query"
    /\ ~MicrotasksPending
    /\ calls' = [calls EXCEPT ![c].pc = "searchDone", ![c].result = <<>>]
    /\ UNCHANGED <<indexedParents, indexingInFlight, builds, nameIndex>>
    /\ UNCHANGED <<schema, search, boot, store, byParentId, clientVars, viewVars>>

\* line 318: openFileDB() rejects outside the try
SearchOpenFail(c) ==
    /\ calls[c].pc = "query"
    /\ ~MicrotasksPending
    /\ calls' = [calls EXCEPT ![c].pc = "searchRejected"]
    /\ UNCHANGED <<indexedParents, indexingInFlight, builds, nameIndex>>
    /\ UNCHANGED <<schema, search, boot, store, byParentId, clientVars, viewVars>>

(***************************************************************************)
(* Writers of the record store.                                            *)
(***************************************************************************)
IdSeqs == UNION {[1..n -> Ids] : n \in 1..MaxItems}
BatchSizes == {1, MaxItems}

\* stale: (history) a batch was committed after postings had been written
NoBatch == [items |-> <<>>, index |-> 0, batchSize |-> 1, active |-> FALSE,
            stale |-> FALSE]

\* InsertFilesTx without line 141: the records only
InsertFilesTxRecordsOnly(items) ==
    /\ store' = PutAll(Db, items).files
    /\ byParentId' = PutAll(Db, items).byParentId
    /\ UNCHANGED nameIndex

\* insertFiles: the records and their postings in one readwrite transaction
InsertFilesTx(items) ==
    /\ store' = PutAll(Db, items).files
    /\ byParentId' = PutAll(Db, items).byParentId
    /\ nameIndex' = updateNameIndexForItems(nameIndex, items)

\* deleteFilesByIds: one readwrite transaction over the record store only
DeleteFilesTx(ids) ==
    /\ store' = DeleteAll(Db, ids).files
    /\ byParentId' = DeleteAll(Db, ids).byParentId
    /\ UNCHANGED nameIndex

\* (history) a write committed after the pager's walk had begun
Mutation == pager' = [pager EXCEPT !.mutated = @ \/ pager.pc # "idle"]

InsertFiles(items) ==
    /\ ~MicrotasksPending
    /\ ~TxActive
    /\ InsertFilesTx(items)
    /\ Mutation
    /\ UNCHANGED <<schema, search, boot, idxVars, batch, viewVars, nav, ingest, reads>>

DeleteFilesByIds(ids) ==
    /\ ~MicrotasksPending
    /\ ~TxActive
    /\ DeleteFilesTx(ids)
    /\ Mutation
    /\ UNCHANGED <<schema, search, boot, idxVars, batch, viewVars, nav, ingest, reads>>

\* batchInsert runs in the ingestion worker: one transaction per batch,
\* records only
BatchInsertStart(items, batchSize) ==
    /\ ~batch.active
    /\ batch' = [batch EXCEPT !.items = items, !.index = 0,
                               !.batchSize = batchSize, !.active = TRUE]
    /\ UNCHANGED <<schema, search, boot, dbVars, idxVars, pager, viewVars, nav, ingest, reads>>

BatchInsertTx ==
    /\ batch.active
    /\ batch.index < Len(batch.items)
    /\ ~TxActive
    /\ LET slice == SubSeq(batch.items, batch.index + 1,
                           Min(Len(batch.items),
                               batch.index + batch.batchSize))
       IN /\ store' = PutAll(Db, slice).files
          /\ byParentId' = PutAll(Db, slice).byParentId
    /\ batch' = [batch EXCEPT !.index = batch.index + batch.batchSize,
                               !.stale = batch.stale \/ nameIndex # {}
                                            \/ indexedParents # {}]
    /\ Mutation
    /\ UNCHANGED <<schema, search, boot, nameIndex, idxVars, viewVars, nav, ingest, reads>>

\* the loop ends (db.close()), or a transaction fails and the call rejects
BatchInsertEnd ==
    /\ batch.active
    /\ batch' = [NoBatch EXCEPT !.stale = batch.stale]
    /\ UNCHANGED <<schema, search, boot, dbVars, idxVars, pager, viewVars, nav, ingest, reads>>

(***************************************************************************)
(* The data layer: index builds, searches and writers interleaved.         *)
(***************************************************************************)
\* requestIdRef is the length of loads: loads[r] is the loadParent call that
\* drew request id r, with pc "count" / "list" (the fetch it awaits), "done"
\* (it applied both results) or "dropped" (it returned at a staleness check).
\* totalFrom and filesFrom are history: the request id of the call whose
\* setTotalCount / setFiles ran last.  more is the fetch loadMore awaits.
NoNav == [loads |-> <<>>, isLoading |-> FALSE, loadingMoreRef |-> FALSE,
          more |-> [parent |-> Root, offset |-> 0],
          totalFrom |-> 0, filesFrom |-> 0]

\* The database as openFileDB finds it: version is "earlier" while the stored
\* version is below DB_VERSION, which is when openDB runs the upgrade callback;
\* stores and indexes are the names that exist.  opened and before are
\* history: how the last openFileDB ended, and the names it found.
STORE_NAME == "files"
NAME_INDEX_STORE == "nameIndex"
StoreNames == {STORE_NAME, NAME_INDEX_STORE}
IndexNames == {"byParentId", "byToken", "byTokenParent"}
IndexStore(index) == IF index = "byParentId" THEN STORE_NAME
                     ELSE NAME_INDEX_STORE
NoNames == [stores |-> {}, indexes |-> {}]
CurrentSchema == [version |-> "current", stores |-> StoreNames,
                  indexes |-> IndexNames, opened |-> "no", before |-> NoNames]

\* FileTable's filter: text is filterText, requestId is searchRequestIdRef,
\* debounced the arguments debounce holds until its timer fires (<<>>: none),
\* inflight the runIndexedSearch calls that await their search, isSearching
\* the flag.  applied and dropped are history: the request whose result was
\* applied last, and whether a result has been discarded as stale.
NoSearch == [text |-> <<>>, requestId |-> 0, debounced |-> <<>>,
             inflight |-> {}, isSearching |-> FALSE, applied |-> 0,
             dropped |-> FALSE]

\* useIndexedDbBootstrap on one page load.  pc is "idle" until the mount
\* effect runs, "checking" while hasIndexedDBData is awaited, "ready" when it
\* answered true, "ingesting" once the worker has been created.  delivered is
\* the number of the worker's messages that onmessage has handled, boots the
\* number of page loads whose effect has run.
NoBoot == [pc |-> "idle", isDbReady |-> FALSE, delivered |-> 0, boots |-> 0]

\* One call of countChildrenByParentId ("count"), getFilesByParentId ("list")
\* or getFileById ("get"): pc "open" while openFileDB is awaited, "tx"
\* while the read is awaited, "settled" after.  result is a sequence: <<n>>
\* for a count, the page for a list, <<record>> or <<>> (null) for a get.
\* failure and last are history: what failed in this call, and per id the
\* record insertFiles wrote last (replaced: over another record of that id).
\* scanned and moved are history too: per parent the records its committed
\* build read, and the ids insertFiles has since stored under another parent.
NoReads == [pc |-> "idle", op |-> "count", parent |-> Root, id |-> 1,
            limit |-> BATCH_SIZE, offset |-> 0, failure |-> "none", outcome |-> "pending",
            result |-> <<>>,
            last |-> [i \in Ids |-> [rec |-> <<>>, replaced |-> FALSE]],
            scanned |-> [p \in IdxParents |-> {}],
            moved |-> [p \in IdxParents |-> {}]]

\* The ingestion worker.  source is the body of the response and rest what the
\* reader has not delivered yet; value is the chunk held while a flush is
\* awaited; pending is the TextDecoder's incomplete sequence; buffer, items,
\* processed are the handler's locals; events is what postMessage has sent.
\* flushed, attempts and carried are history: the records batchInsert has
\* finished writing, the texts handed to JSON.parse with final = FALSE in the
\* loop and TRUE after it, and whether a chunk ended inside a line.
NoIngest == [pc |-> "idle", source |-> <<>>, rest |-> <<>>, value |-> <<>>,
             pending |-> <<>>, buffer |-> <<>>, items |-> <<>>,
             processed |-> 0, events |-> <<>>, flushed |-> <<>>,
             attempts |-> <<>>, carried |-> FALSE]

NoPager == [parent |-> Root, k |-> 1, offset |-> 0, acc |-> <<>>,
            pc |-> "idle", mutated |-> FALSE]
\* ui.pc: "idle"; "delete" / "insert": a paste awaits deleteFilesByIds /
\* insertFiles; "deleting": a delete awaits deleteFilesByIds.
\* had, failed, copies and storeTotal are history: the moved ids that were
\* stored when the paste began, whether a storage call of a handler has
\* failed, how many ids crypto.randomUUID() has handed out, and the totalCount
\* that fileStore.deleteFiles set before setTotalCount replaced it.
\* pasted and last are history of pasteClipboard run as one step: how many
\* calls have returned, and how the last one ended.
NoUi == [op |-> "none", pc |-> "idle", items |-> <<>>, files |-> <<>>,
         totalCount |-> 0, filesLength |-> 0, ids |-> <<>>, toAdd |-> <<>>,
         had |-> {}, failed |-> FALSE, copies |-> 0, storeTotal |-> 0,
         pasted |-> 0, last |-> "none"]

ViewIdle ==
    /\ files = <<>>
    /\ totalCount = 0
    /\ clipboard = <<>>
    /\ clipboardOperation = "none"
    /\ currentParentId = Root
    /\ tableParentId = Undefined
    /\ selectedRows = {}
    /\ filteredFiles = <<>>
    /\ filterActive = FALSE
    /\ ui = NoUi

IdxIdle ==
    /\ indexedParents = {}
    /\ indexingInFlight = [k \in IdxParents |-> 0]
    /\ builds = <<>>
    /\ calls = [c \in Callers |-> IdleCall]

(***************************************************************************)
(* SpecIdx: concurrent ensureParentIndexed and search calls over a fixed   *)
(* store, with storage failures.                                           *)
(***************************************************************************)
SeedRecords == {Rec(1, Root, <<"A", "b", "c", "a">>),
                Rec(2, 1, <<"b", "c", "a", "b", "c">>)}

IdxQueries == {<<"a", "b", "c">>, <<"a", "b">>}

InitIdx ==
    /\ store = SeedRecords
    /\ byParentId = {<<r.parent_id, r.id>> : r \in SeedRecords}
    /\ nameIndex = {}
    /\ IdxIdle
    /\ batch = NoBatch
    /\ pager = NoPager
    /\ nav = NoNav
    /\ ingest = NoIngest
    /\ reads = NoReads /\ schema = CurrentSchema /\ search = NoSearch /\ boot = NoBoot
    /\ ViewIdle

NextIdx ==
    \/ \E c \in Callers, p \in IdxParents : EnsureCall(c, p)
    \/ \E c \in Callers, q \in IdxQueries, p \in IdxParents :
          SearchCall(c, q, p, MaxId)
    \/ \E b \in 1..Len(builds) : BuildOpenOk(b)
    \/ \E b \in 1..Len(builds) : BuildOpenFail(b)
    \/ \E b \in 1..Len(builds) : BuildCommit(b)
    \/ \E b \in 1..Len(builds) : BuildTxFail(b)
    \/ \E c \in Callers : Resume(c)
    \/ \E c \in Callers : SearchQuery(c)
    \/ \E c \in Callers : SearchQueryFail(c)
    \/ \E c \in Callers : SearchOpenFail(c)
    \/ \E c \in Callers : Return(c)

SpecIdx == InitIdx /\ [][NextIdx]_vars

BuildsOf(p) == {b \in 1..Len(builds) : builds[b].parent = p}
Running(p) == {b \in BuildsOf(p) : ~Settled(b)}
SettledCall(c) == calls[c].ens \in {"resolved", "rejected"}

\* C1: concurrent ensureParentIndexed(p) calls for an un-indexed p share one
\* build: never two builds of p in flight, every waiting call awaits the build
\* registered in the in-flight map, a second build of p exists only after the
\* first one failed, and every call of a build that succeeded resolves.
C1_Singleflight ==
    /\ \A p \in IdxParents : Cardinality(Running(p)) <= 1
    /\ \A c \in Callers :
          (calls[c].pc = "awaiting" /\ ~Settled(calls[c].build))
              => calls[c].build = indexingInFlight[ParentKey(calls[c].p)]
    /\ \A p \in IdxParents : \A b1, b2 \in BuildsOf(p) :
          b1 < b2 => builds[b1].state = "rejected"
    /\ \A c \in Callers :
          (SettledCall(c) /\ calls[c].build # 0
              /\ builds[calls[c].build].state = "fulfilled")
              => calls[c].ens = "resolved"

\* every caller shared one successful build: one started it, the rest joined
C1_Witness ==
    \E b \in 1..Len(builds) :
        /\ builds[b].state = "fulfilled"
        /\ BuildsOf(builds[b].parent) = {b}
        /\ \A c \in Callers : calls[c].build = b /\ calls[c].ens = "resolved"
        /\ Cardinality({c \in Callers : calls[c].role = "joiner"})
              = MaxCallers - 1

\* C2: the calls that shared one build all end the same way.
C2_SameOutcome ==
    \A c1, c2 \in Callers :
        (SettledCall(c1) /\ SettledCall(c2) /\ calls[c1].build # 0
            /\ calls[c1].build = calls[c2].build)
            => calls[c1].ens = calls[c2].ens

\* C3: a failed build leaves no in-flight entry behind and does not mark its
\* parent; a parent is marked only by a build whose transaction committed.
C3_FailedBuildCleared ==
    /\ \A b \in 1..Len(builds) :
          builds[b].state = "rejected"
              => indexingInFlight[ParentKey(builds[b].parent)] # b
    /\ \A p \in IdxParents :
          ParentKey(p) \in indexedParents
              => \E b \in BuildsOf(p) : builds[b].state = "fulfilled"

\* C4: in the step in which a call of ensureParentIndexed(p) settles, no build
\* of p is in flight and the in-flight map has no entry for p.
C4_NothingLeftRunning ==
    [][\A c \in Callers :
          (~SettledCall(c) /\ calls'[c].ens \in {"resolved", "rejected"})
              => /\ indexingInFlight'[ParentKey(calls'[c].p)] = 0
                 /\ \A b \in 1..Len(builds') :
                       builds'[b].parent = calls'[c].p
                           => builds'[b].state \in {"fulfilled", "rejected"}
      ]_vars

(***************************************************************************)
(* SpecSearch: a client searching under the root while insertFiles,        *)
(* deleteFilesByIds and the ingestion worker's batchInsert write the       *)
(* store.  No storage operation fails here.                                *)
(***************************************************************************)
SearchQueries == {<<"a", "b", "c", "a">>, <<" ", "B", "C", "A">>}
SearchItems == {Rec(id, parent, name) : id \in Ids, parent \in IdxParents,
                    name \in {<<"A", "b", "c", "a">>,
                              <<"b", "c", "a", "b", "c">>}}
BulkItems == <<Rec(MaxId, Root, <<"A", "b", "c", "a">>),
               Rec(1, 1, <<"b", "c", "a", "b", "c">>)>>

InitSearch ==
    /\ store = {}
    /\ byParentId = {}
    /\ nameIndex = {}
    /\ IdxIdle
    /\ batch = NoBatch
    /\ pager = NoPager
    /\ nav = NoNav
    /\ ingest = NoIngest
    /\ reads = NoReads /\ schema = CurrentSchema /\ search = NoSearch /\ boot = NoBoot
    /\ ViewIdle

NextSearch ==
    \/ \E q \in SearchQueries, l \in Limits : SearchCall(1, q, Root, l)
    \/ \E b \in 1..Len(builds) : BuildOpenOk(b)
    \/ \E b \in 1..Len(builds) : BuildCommit(b)
    \/ Resume(1)
    \/ SearchQuery(1)
    \/ Return(1)
    \/ \E item \in SearchItems : InsertFiles(<<item>>)
    \/ \E ids \in IdSeqs : DeleteFilesByIds(ids)
    \/ BatchInsertStart(BulkItems, 1)
    \/ BatchInsertTx
    \/ BatchInsertEnd

SpecSearch == InitSearch /\ [][NextSearch]_vars

\* the children of parentId whose lower-cased name contains the query
MatchingChildren(S, input, parentId) ==
    {r \in S : /\ r.parent_id = parentId
               /\ Includes(ToLowerCase(r.name), ToLowerCase(Trim(input)))}

\* the step in which call c runs its query transaction
QueryStep(c) == calls[c].pc = "query" /\ calls'[c].pc = "searchDone"

EnoughLimit(c) ==
    calls[c].limit
        >= Cardinality(MatchingChildren(store, calls[c].q, calls[c].p))

ExactResult(c) ==
    /\ Range(calls'[c].result)
          = MatchingChildren(store, calls[c].q, calls[c].p)
    /\ Len(calls'[c].result)
          = Cardinality(MatchingChildren(store, calls[c].q, calls[c].p))

StoreItems == {Rec(id, parent, <<"A", "b", "c", "a">>) :
                   id \in Ids, parent \in IdxParents}
StoreSeqs == UNION {[1..n -> StoreItems] : n \in 1..MaxItems}

InitStore ==
    /\ store = {}
    /\ byParentId = {}
    /\ nameIndex = {}
    /\ IdxIdle
    /\ batch = NoBatch
    /\ pager = NoPager
    /\ nav = NoNav
    /\ ingest = NoIngest
    /\ reads = NoReads /\ schema = CurrentSchema /\ search = NoSearch /\ boot = NoBoot
    /\ ViewIdle

NextStore ==
    \/ \E items \in StoreSeqs : InsertFiles(items)
    \/ \E ids \in IdSeqs : DeleteFilesByIds(ids)
    \/ \E items \in StoreSeqs, n \in BatchSizes : BatchInsertStart(items, n)
    \/ BatchInsertTx
    \/ BatchInsertEnd

SpecStore == InitStore /\ [][NextStore]_vars

LiveChildren(parentId) == {r \in store : r.parent_id = parentId}

\* C8: whatever insertFiles, batchInsert and deleteFilesByIds have done, for
\* every parent countChildren(parent) is the number of live records whose
\* parent id is that parent.
C8_CountIsLiveChildren ==
    \A p \in IdxParents \cup Ids :
        countChildrenByParentId(byParentId, p)
            = Cardinality(LiveChildren(p))

\* halfway through a two-batch batchInsert that moved a record insertFiles
\* had written (its postings still name the old parent) next to another child
C8_Witness ==
    /\ batch.active
    /\ batch.index = 1
    /\ Len(batch.items) = 2
    /\ \E r \in store : \E x \in nameIndex :
          x.fileId = r.id /\ x.parent_id # r.parent_id
    /\ \E p \in IdxParents : countChildrenByParentId(byParentId, p) = MaxId

(***************************************************************************)
(* SpecPage: a client pages through one parent with a fixed page size      *)
(* while writers may change the store.                                     *)
(***************************************************************************)
PageSizes == 1..MaxId

PageStart(parentId, k) ==
    /\ pager.pc = "idle"
    /\ pager' = [NoPager EXCEPT !.parent = parentId, !.k = k,
                                !.pc = "paging"]
    /\ UNCHANGED <<schema, search, boot, dbVars, idxVars, batch, viewVars, nav, ingest, reads>>

\* listChildren(parent, k, offset); the first empty page ends the walk
PageNext ==
    /\ pager.pc = "paging"
    /\ LET page == getFilesByParentId(store, byParentId, pager.parent,
                                      pager.k, pager.offset)
       IN pager' = IF page = <<>> THEN [pager EXCEPT !.pc = "done"]
                   ELSE [pager EXCEPT !.acc = @ \o page,
                                      !.offset = @ + pager.k]
    /\ UNCHANGED <<schema, search, boot, dbVars, idxVars, batch, viewVars, nav, ingest, reads>>

PageReset ==
    /\ pager.pc = "done"
    /\ pager' = NoPager
    /\ UNCHANGED <<schema, search, boot, dbVars, idxVars, batch, viewVars, nav, ingest, reads>>

InitPage ==
    /\ store = {}
    /\ byParentId = {}
    /\ nameIndex = {}
    /\ IdxIdle
    /\ batch = NoBatch
    /\ pager = NoPager
    /\ nav = NoNav
    /\ ingest = NoIngest
    /\ reads = NoReads /\ schema = CurrentSchema /\ search = NoSearch /\ boot = NoBoot
    /\ ViewIdle

NextPage ==
    \/ \E p \in IdxParents, k \in PageSizes : PageStart(p, k)
    \/ PageNext
    \/ PageReset
    \/ \E item \in StoreItems : InsertFiles(<<item>>)
    \/ \E id \in Ids : DeleteFilesByIds(<<id>>)

SpecPage == InitPage /\ [][NextPage]_vars

\* C7: with no mutation between the calls, the pages at offsets 0, k, 2k, ...
\* are consecutive runs of the parent's children: put end to end they never
\* repeat or skip a child, and at the first empty page they are all the
\* children of the parent and nothing else.
C7_PagesPartition ==
    (pager.pc # "idle" /\ ~pager.mutated) =>
        LET children == ChildIds(byParentId, pager.parent)
            n == Len(pager.acc)
        IN /\ n <= Len(children)
           /\ \A i \in 1..n : pager.acc[i] = Get(store, children[i])
           /\ pager.pc = "paging" => n = Min(pager.offset, Len(children))
           /\ pager.pc = "done" => n = Len(children)

\* a walk of single-record pages over MaxId children reached the empty page
C7_Witness ==
    /\ pager.pc = "done"
    /\ ~pager.mutated
    /\ pager.k = 1
    /\ Len(pager.acc) = MaxId
    /\ pager.offset = MaxId

(***************************************************************************)
(* The file table: navigation, selection, the name filter and the          *)
(* clipboard handlers of the context menu.                                 *)
(***************************************************************************)
activeFiles == IF filterActive THEN filteredFiles ELSE files
effectiveParentId == IF tableParentId = Undefined THEN Root ELSE tableParentId

\* the context menu is opened on a row, which is selected from then on
RowSelected == \E i \in 1..Len(activeFiles) : activeFiles[i].id \in selectedRows

Finished(u) == [NoUi EXCEPT !.failed = u.failed, !.copies = u.copies]

Selected(fs, sel) ==
    LET keep(f) == f.id \in sel IN SelectSeq(fs, keep)

\* ensureParentIndexed(parentId) run to its end with no storage failure
EnsureIndexed(parentId) ==
    /\ nameIndex' = IF ParentKey(parentId) \in indexedParents THEN nameIndex
                    ELSE ScanAndIndex(nameIndex, parentId)
    /\ indexedParents' = indexedParents \cup {ParentKey(parentId)}

\* loadParent(p) run to its end, after navigateTo, goBack or a breadcrumb
\* click; FileTable resets its local state when its prop changes
ShowFolder(p) ==
    /\ ui.pc = "idle"
    /\ p = Root \/ \E i \in 1..Len(activeFiles) : activeFiles[i].id = p
    /\ currentParentId' = p
    /\ totalCount' = countChildrenByParentId(byParentId, p)
    /\ files' = getFilesByParentId(store, byParentId, p, INITIAL_BATCH_SIZE, 0)
    /\ EnsureIndexed(p)
    /\ tableParentId' = IF tableParentId = Undefined THEN Undefined ELSE p
    /\ IF tableParentId' # tableParentId
       THEN selectedRows' = {} /\ filteredFiles' = <<>> /\ filterActive' = FALSE
       ELSE UNCHANGED <<schema, search, boot, selectedRows, filteredFiles, filterActive>>
    /\ UNCHANGED <<schema, search, boot, store, byParentId, indexingInFlight, builds, calls,
                   clientVars, clipboard, clipboardOperation, ui>>

\* handleContextMenu on a row that is not selected: it becomes the selection
ContextMenu(id) ==
    /\ ui.pc = "idle"
    /\ \E i \in 1..Len(activeFiles) : activeFiles[i].id = id
    /\ id \notin selectedRows
    /\ selectedRows' = {id}
    /\ UNCHANGED <<schema, search, boot, dbVars, idxVars, clientVars, files, totalCount, clipboard,
                   clipboardOperation, currentParentId, tableParentId,
                   filteredFiles, filterActive, ui>>

\* the filter text becomes q and runIndexedSearch applies its result
ApplyFilter(q) ==
    /\ ui.pc = "idle"
    /\ Len(Trim(q)) >= TRIGRAM_SIZE
    /\ EnsureIndexed(effectiveParentId)
    /\ filteredFiles' = SearchResults(store, nameIndex', Trim(q),
                                      effectiveParentId, SEARCH_LIMIT)
    /\ filterActive' = TRUE
    /\ UNCHANGED <<schema, search, boot, store, byParentId, indexingInFlight, builds, calls,
                   clientVars, files, totalCount, clipboard,
                   clipboardOperation, currentParentId, tableParentId,
                   selectedRows, ui>>

\* the filter text is emptied
ClearFilter ==
    /\ ui.pc = "idle"
    /\ filterActive
    /\ filteredFiles' = <<>>
    /\ filterActive' = FALSE
    /\ UNCHANGED <<schema, search, boot, dbVars, idxVars, clientVars, files, totalCount, clipboard,
                   clipboardOperation, currentParentId, tableParentId,
                   selectedRows, ui>>

copySelected ==
    /\ ui.pc = "idle"
    /\ RowSelected
    /\ clipboard' = Selected(activeFiles, selectedRows)
    /\ clipboardOperation' = "copy"
    /\ UNCHANGED <<schema, search, boot, dbVars, idxVars, clientVars, files, totalCount,
                   currentParentId, tableParentId, selectedRows,
                   filteredFiles, filterActive, ui>>

cutSelected ==
    /\ ui.pc = "idle"
    /\ RowSelected
    /\ clipboard' = Selected(activeFiles, selectedRows)
    /\ clipboardOperation' = "cut"
    /\ UNCHANGED <<schema, search, boot, dbVars, idxVars, clientVars, files, totalCount,
                   currentParentId, tableParentId, selectedRows,
                   filteredFiles, filterActive, ui>>

\* makeCopy without line 50: the copy keeps the id of the original
makeCopyKeepId(item, id, parentId) ==
    [item EXCEPT !.name = item.name \o <<" ", "c", "o", "p", "y">>,
                 !.parent_id = parentId]

makeCopy(item, id, parentId) ==
    [item EXCEPT !.id = id,
                 !.name = item.name \o <<" ", "c", "o", "p", "y">>,
                 !.parent_id = parentId]

makeMove(item, parentId) == [item EXCEPT !.parent_id = parentId]

\* movedItems.find((m) => m.id === file.id) ?? file
FindMoved(moved, file) ==
    IF \E i \in 1..Len(moved) : moved[i].id = file.id
    THEN moved[CHOOSE i \in 1..Len(moved) :
                   /\ moved[i].id = file.id
                   /\ \A j \in 1..(i - 1) : moved[j].id # file.id]
    ELSE file

\* pasteClipboard up to its first await
PasteStart ==
    /\ ui.pc = "idle"
    /\ RowSelected
    /\ clipboardOperation # "none"
    /\ IF tableParentId = Undefined THEN UNCHANGED ui
       ELSE IF clipboardOperation = "cut"
       THEN LET movedItems == [i \in 1..Len(clipboard) |->
                                  makeMove(clipboard[i], tableParentId)]
                inCurrent(m) ==
                    \E i \in 1..Len(files) : files[i].id = m.id
                notInCurrent(m) == ~inCurrent(m)
            IN ui' = [Finished(ui) EXCEPT
                   !.op = "cut", !.pc = "delete", !.items = movedItems,
                   !.files = [i \in 1..Len(files) |->
                                 FindMoved(movedItems, files[i])],
                   !.totalCount = totalCount,
                   !.ids = [i \in 1..Len(clipboard) |-> clipboard[i].id],
                   !.toAdd = SelectSeq(movedItems, notInCurrent),
                   !.had = {clipboard[i].id : i \in
                               {j \in 1..Len(clipboard) :
                                   HasId(store, clipboard[j].id)}}]
       ELSE /\ ui.copies < MaxCopies
            /\ ui' = [Finished(ui) EXCEPT
                   !.op = "copy", !.pc = "insert",
                   !.items = [i \in 1..Len(clipboard) |->
                                 makeCopy(clipboard[i], MaxId + ui.copies + i,
                                          tableParentId)],
                   !.files = files, !.totalCount = totalCount,
                   !.copies = ui.copies + Len(clipboard)]
    /\ UNCHANGED <<schema, search, boot, dbVars, idxVars, clientVars, files, totalCount, clipboard,
                   clipboardOperation, currentParentId, tableParentId,
                   selectedRows, filteredFiles, filterActive>>

\* line 72: the transaction of deleteFilesByIds commits
PasteCutDelete ==
    /\ ui.pc = "delete"
    /\ DeleteFilesTx(ui.ids)
    /\ ui' = [ui EXCEPT !.pc = "insert"]
    /\ UNCHANGED <<schema, search, boot, idxVars, clientVars, files, totalCount, clipboard,
                   clipboardOperation, currentParentId, tableParentId,
                   selectedRows, filteredFiles, filterActive>>

\* line 72: deleteFilesByIds rejects and so does the paste
PasteCutDeleteFail ==
    /\ ui.pc = "delete"
    /\ ui' = [Finished(ui) EXCEPT !.failed = TRUE]
    /\ UNCHANGED <<schema, search, boot, dbVars, idxVars, clientVars, files, totalCount, clipboard,
                   clipboardOperation, currentParentId, tableParentId,
                   selectedRows, filteredFiles, filterActive>>

\* lines 73-79 and 83-85: the transaction of insertFiles commits and the
\* view model is updated
PasteInsert ==
    /\ ui.pc = "insert"
    /\ InsertFilesTx(ui.items)
    /\ IF ui.op = "cut"
       THEN /\ files' = ui.files \o ui.toAdd
            /\ totalCount' = IF Len(ui.toAdd) > 0
                             THEN ui.totalCount + Len(ui.toAdd)
                             ELSE totalCount
            /\ clipboard' = <<>>
            /\ clipboardOperation' = "none"
       ELSE /\ files' = ui.files \o ui.items
            /\ totalCount' = ui.totalCount + Len(ui.items)
            /\ UNCHANGED <<schema, search, boot, clipboard, clipboardOperation>>
    /\ ui' = Finished(ui)
    /\ UNCHANGED <<schema, search, boot, idxVars, clientVars, currentParentId, tableParentId,
                   selectedRows, filteredFiles, filterActive>>

\* lines 73 and 83: insertFiles rejects and so does the paste
PasteInsertFail ==
    /\ ui.pc = "insert"
    /\ ui' = [Finished(ui) EXCEPT !.failed = TRUE]
    /\ UNCHANGED <<schema, search, boot, dbVars, idxVars, clientVars, files, totalCount, clipboard,
                   clipboardOperation, currentParentId, tableParentId,
                   selectedRows, filteredFiles, filterActive>>

\* handleDelete and deleteSelected up to the await
DeleteStart ==
    /\ ui.pc = "idle"
    /\ RowSelected
    /\ selectedRows' = {}
    /\ ui' = [Finished(ui) EXCEPT
           !.op = "delete", !.pc = "deleting",
           !.ids = SortedSeq(selectedRows),
           !.filesLength = Len(activeFiles), !.totalCount = totalCount]
    /\ UNCHANGED <<schema, search, boot, dbVars, idxVars, clientVars, files, totalCount, clipboard,
                   clipboardOperation, currentParentId, tableParentId,
                   filteredFiles, filterActive>>

\* lines 98-109: the transaction commits, the store drops the rows and the
\* total is set; loadMore appends a page when it is called and has work
DeleteCommit ==
    /\ ui.pc = "deleting"
    /\ DeleteFilesTx(ui.ids)
    /\ LET deletedCount == Len(ui.ids)
           newTotalCount == Max(0, ui.totalCount - deletedCount)
           gone(f) == f.id \notin Range(ui.ids)
           kept == SelectSeq(files, gone)
           after == DeleteAll(Db, ui.ids)
       IN /\ totalCount' = newTotalCount
          /\ files' =
                IF /\ ui.filesLength - deletedCount < PREFETCH_THRESHOLD
                   /\ newTotalCount > ui.filesLength - deletedCount
                   /\ Len(files) < totalCount
                THEN kept \o getFilesByParentId(after.files, after.byParentId,
                                                currentParentId, BATCH_SIZE,
                                                Len(files))
                ELSE kept
          /\ ui' = [Finished(ui) EXCEPT
                       !.storeTotal = totalCount - deletedCount]
    /\ UNCHANGED <<schema, search, boot, idxVars, clientVars, clipboard, clipboardOperation,
                   currentParentId, tableParentId, selectedRows,
                   filteredFiles, filterActive>>

\* line 98: deleteFilesByIds rejects and so does the handler
DeleteFail ==
    /\ ui.pc = "deleting"
    /\ ui' = [Finished(ui) EXCEPT !.failed = TRUE]
    /\ UNCHANGED <<schema, search, boot, dbVars, idxVars, clientVars, files, totalCount, clipboard,
                   clipboardOperation, currentParentId, tableParentId,
                   selectedRows, filteredFiles, filterActive>>

(***************************************************************************)
(* SpecView: the table over a small tree.  Folder 1 lies in the root and   *)
(* holds the other records; the root has been loaded and indexed.  Rows    *)
(* are selected through the context menu.  The table's currentParentId     *)
(* prop is either never passed (as Table renders it) or follows the folder *)
(* shown.                                                                  *)
(***************************************************************************)
ViewSeed == {Rec(1, Root, <<"A", "b", "c", "a">>)}
               \cup {Rec(i, 1, <<"b", "c", "a", "b", "c">>) : i \in 2..MaxId}
ViewQueries == {<<"a", "b", "c">>}

InitView ==
    /\ store = ViewSeed
    /\ byParentId = {<<r.parent_id, r.id>> : r \in ViewSeed}
    /\ indexedParents = {ParentKey(Root)}
    /\ nameIndex = ScanAndIndex({}, Root)
    /\ indexingInFlight = [k \in IdxParents |-> 0]
    /\ builds = <<>>
    /\ calls = [c \in Callers |-> IdleCall]
    /\ batch = NoBatch
    /\ pager = NoPager
    /\ nav = NoNav
    /\ ingest = NoIngest
    /\ reads = NoReads /\ schema = CurrentSchema /\ search = NoSearch /\ boot = NoBoot
    /\ files = getFilesByParentId(store, byParentId, Root,
                                  INITIAL_BATCH_SIZE, 0)
    /\ totalCount = countChildrenByParentId(byParentId, Root)
    /\ clipboard = <<>>
    /\ clipboardOperation = "none"
    /\ currentParentId = Root
    /\ tableParentId \in {Undefined, Root}
    /\ selectedRows = {}
    /\ filteredFiles = <<>>
    /\ filterActive = FALSE
    /\ ui = NoUi

NextView ==
    \/ \E p \in IdxParents : ShowFolder(p)
    \/ \E id \in 1..(MaxId + MaxCopies) : ContextMenu(id)
    \/ \E q \in ViewQueries : ApplyFilter(q)
    \/ ClearFilter
    \/ copySelected
    \/ cutSelected
    \/ PasteStart
    \/ PasteCutDelete
    \/ PasteCutDeleteFail
    \/ PasteInsert
    \/ PasteInsertFail
    \/ DeleteStart
    \/ DeleteCommit
    \/ DeleteFail

SpecView == InitView /\ [][NextView]_vars

\* C9 as stated: once copy-paste, cut-paste and delete handlers have run to
\* their end (none of their storage calls failing), with or without a name
\* filter, the view model's totalCount is countChildren of the folder shown.
C9_TotalMatchesStore ==
    (ui.pc = "idle" /\ ~ui.failed) =>
        totalCount = countChildrenByParentId(byParentId, currentParentId)

\* C10 as stated: from the start of a cut+paste to its end, whether it
\* succeeds or fails, getById finds every moved record that was stored when
\* the paste began.
C10_CutPasteAtomic ==
    [][(ui.op = "cut" /\ ui.pc # "idle") =>
          \A id \in ui.had : getFileById(store', id) # <<>>
      ]_vars

\* the substrings of the lower-cased name that a search accepts
Substrings(name) ==
    {SubSeq(ToLowerCase(name), i, j) :
        i \in 1..Len(name), j \in 1..Len(name)}
        \ {q \in {SubSeq(ToLowerCase(name), i, j) :
                     i \in 1..Len(name), j \in 1..Len(name)} :
              Len(Trim(q)) < TRIGRAM_SIZE \/ Trim(q) # q}

\* parentId is marked indexed and holds a posting of every token of the name
IndexedUnder(id, name, parentId) ==
    /\ ParentKey(parentId) \in indexedParents
    /\ buildTrigrams(name) # <<>>
    /\ \A t \in Range(buildTrigrams(name)) :
          [token |-> t, fileId |-> id, parent_id |-> parentId] \in nameIndex

Found(S, ix, q, parentId, id) ==
    \E r \in Range(SearchResults(S, ix, q, parentId, SEARCH_LIMIT)) : r.id = id

\* the step in which a cut+paste commits its insertFiles
MoveCommitted ==
    ui.op = "cut" /\ ui.pc = "insert" /\ ui'.pc = "idle" /\ ~ui'.failed
        /\ clipboardOperation' = "none"

requestIdRef == Len(nav.loads)

\* lines 29-33: a navigation handler has set currentParentId and calls
\* loadParent(parentId), which draws its request id and starts the count
LoadParentStart(parentId) ==
    /\ requestIdRef < MaxLoads
    /\ currentParentId' = parentId
    /\ nav' = [nav EXCEPT !.loads = Append(@, [parent |-> parentId,
                                                pc |-> "count"]),
                          !.isLoading = TRUE]
    /\ UNCHANGED <<schema, search, boot, dbVars, idxVars, batch, pager, ingest, reads, files, totalCount,
                   clipboard, clipboardOperation, tableParentId, selectedRows,
                   filteredFiles, filterActive, ui>>

\* LoadCount without line 34: the total is applied whatever the request id
LoadCountNoCheck(r) ==
    /\ nav.loads[r].pc = "count"
    /\ totalCount' = countChildrenByParentId(byParentId, nav.loads[r].parent)
    /\ nav' = [nav EXCEPT !.loads[r].pc = "list", !.totalFrom = r]
    /\ UNCHANGED <<schema, search, boot, dbVars, idxVars, batch, pager, ingest, reads, files, clipboard,
                   clipboardOperation, currentParentId, tableParentId,
                   selectedRows, filteredFiles, filterActive, ui>>

\* lines 33-38 and 47-48: the count has arrived
LoadCount(r) ==
    /\ nav.loads[r].pc = "count"
    /\ IF r # requestIdRef
       THEN /\ nav' = [nav EXCEPT !.loads[r].pc = "dropped",
                                  !.isLoading = FALSE]
            /\ UNCHANGED totalCount
       ELSE /\ totalCount' = countChildrenByParentId(byParentId,
                                                     nav.loads[r].parent)
            /\ nav' = [nav EXCEPT !.loads[r].pc = "list", !.totalFrom = r]
    /\ UNCHANGED <<schema, search, boot, dbVars, idxVars, batch, pager, ingest, reads, files, clipboard,
                   clipboardOperation, currentParentId, tableParentId,
                   selectedRows, filteredFiles, filterActive, ui>>

\* lines 38-48: the first page has arrived
LoadList(r) ==
    /\ nav.loads[r].pc = "list"
    /\ IF r # requestIdRef
       THEN /\ nav' = [nav EXCEPT !.loads[r].pc = "dropped",
                                  !.isLoading = FALSE]
            /\ UNCHANGED <<schema, search, boot, files, nameIndex, indexedParents>>
       ELSE /\ files' = getFilesByParentId(store, byParentId,
                                           nav.loads[r].parent,
                                           INITIAL_BATCH_SIZE, 0)
            /\ EnsureIndexed(nav.loads[r].parent)
            /\ nav' = [nav EXCEPT !.loads[r].pc = "done", !.filesFrom = r,
                                  !.isLoading = FALSE]
    /\ UNCHANGED <<schema, search, boot, store, byParentId, indexingInFlight, builds, calls, batch,
                   pager, ingest, reads, totalCount, clipboard, clipboardOperation,
                   currentParentId, tableParentId, selectedRows,
                   filteredFiles, filterActive, ui>>

\* lines 54-64: loadMore passes its guards and starts its fetch
LoadMoreStart ==
    /\ ~nav.loadingMoreRef
    /\ ~nav.isLoading
    /\ Len(files) < totalCount
    /\ nav' = [nav EXCEPT !.loadingMoreRef = TRUE,
                          !.more = [parent |-> currentParentId,
                                    offset |-> Len(files)]]
    /\ UNCHANGED <<schema, search, boot, dbVars, idxVars, batch, pager, ingest, reads, viewVars>>

\* lines 65-68: the page has arrived and is appended
LoadMoreDone ==
    /\ nav.loadingMoreRef
    /\ files' = files \o getFilesByParentId(store, byParentId,
                                            nav.more.parent, BATCH_SIZE,
                                            nav.more.offset)
    /\ nav' = [nav EXCEPT !.loadingMoreRef = FALSE,
                          !.more = NoNav.more]
    /\ UNCHANGED <<schema, search, boot, dbVars, idxVars, batch, pager, ingest, reads, totalCount,
                   clipboard, clipboardOperation, currentParentId,
                   tableParentId, selectedRows, filteredFiles, filterActive,
                   ui>>

(***************************************************************************)
(* SpecLoad: overlapping loadParent calls over a fixed tree; SpecNav adds  *)
(* loadMore.  The root holds folder 1 and one more record, folder 1 holds  *)
(* the rest.                                                               *)
(***************************************************************************)
NavSeed == {Rec(1, Root, <<"A", "b", "c", "a">>),
            Rec(MaxId + 1, Root, <<"b", "c", "a", "b", "c">>)}
              \cup {Rec(i, 1, <<"b", "c", "a", "b", "c">>) : i \in 2..MaxId}

InitNav ==
    /\ store = NavSeed
    /\ byParentId = {<<r.parent_id, r.id>> : r \in NavSeed}
    /\ nameIndex = {}
    /\ IdxIdle
    /\ batch = NoBatch
    /\ pager = NoPager
    /\ nav = NoNav
    /\ ingest = NoIngest
    /\ reads = NoReads /\ schema = CurrentSchema /\ search = NoSearch /\ boot = NoBoot
    /\ ViewIdle

NextLoad ==
    \/ \E p \in IdxParents : LoadParentStart(p)
    \/ \E r \in 1..requestIdRef : LoadCount(r)
    \/ \E r \in 1..requestIdRef : LoadList(r)

SpecLoad == InitNav /\ [][NextLoad]_vars

NextNav ==
    \/ \E p \in IdxParents : LoadParentStart(p)
    \/ \E r \in 1..requestIdRef : LoadCount(r)
    \/ \E r \in 1..requestIdRef : LoadList(r)
    \/ LoadMoreStart
    \/ LoadMoreDone

SpecNav == InitNav /\ [][NextNav]_vars

AllFetched(n) ==
    \A r \in 1..Len(n.loads) : n.loads[r].pc \in {"done", "dropped"}

\* C11: a loadParent call applies its count or its page only while it is the
\* most recently started call, and once no fetch is pending the displayed
\* total and page are the ones the most recently started call fetched.
C11_StaleLoadRejected ==
    [][/\ nav'.totalFrom # nav.totalFrom
            => nav'.totalFrom = Len(nav'.loads)
       /\ nav'.filesFrom # nav.filesFrom
            => nav'.filesFrom = Len(nav'.loads)
       /\ (AllFetched(nav') /\ Len(nav'.loads) > 0) =>
             LET last == nav'.loads[Len(nav'.loads)]
             IN /\ nav'.totalFrom = Len(nav'.loads)
                /\ nav'.filesFrom = Len(nav'.loads)
                /\ last.pc = "done"
                /\ totalCount' = countChildrenByParentId(byParentId',
                                                         last.parent)
                /\ files' = getFilesByParentId(store', byParentId',
                                               last.parent,
                                               INITIAL_BATCH_SIZE, 0)
      ]_vars

\* MaxLoads calls overlapped; the older ones were dropped, one of them after
\* its count had been applied, and the last one, for another parent, won
C11_Witness ==
    /\ Len(nav.loads) = MaxLoads
    /\ AllFetched(nav)
    /\ \A r \in 1..(MaxLoads - 1) : nav.loads[r].pc = "dropped"
    /\ nav.loads[1].parent # nav.loads[MaxLoads].parent
    /\ nav.filesFrom = MaxLoads
    /\ files # <<>>

\* C12 as stated: the displayed page never holds children of two parents
\* (a loadMore page fetched for a folder left since is not appended).
C12_NoMixedPage ==
    \A i, j \in 1..Len(files) : files[i].parent_id = files[j].parent_id

(***************************************************************************)
(* The ingestion worker (onmessage, INIT_PARSE).  Bytes and characters are *)
(* one-character strings; "L" "T" are the two bytes of the character "E",  *)
(* "?" is U+FFFD.                                                          *)
(***************************************************************************)
\* TextDecoder.decode(value, {stream: true}) from the pending bytes pend
RECURSIVE DecodeAcc(_, _, _)
DecodeAcc(bytes, pend, out) ==
    IF bytes = <<>> THEN [out |-> out, pending |-> pend]
    ELSE LET b == Head(bytes)
         IN IF pend # <<>>
            THEN IF b = "T"
                 THEN DecodeAcc(Tail(bytes), <<>>, Append(out, "E"))
                 ELSE DecodeAcc(bytes, <<>>, Append(out, "?"))
            ELSE IF b = "L" THEN DecodeAcc(Tail(bytes), <<b>>, out)
            ELSE IF b = "T" THEN DecodeAcc(Tail(bytes), <<>>, Append(out, "?"))
            ELSE DecodeAcc(Tail(bytes), <<>>, Append(out, b))

Decode(pend, bytes) == DecodeAcc(bytes, pend, <<>>)

\* String.prototype.split("\n"): the segments between the terminators
RECURSIVE SplitAcc(_, _, _)
SplitAcc(text, cur, acc) ==
    IF text = <<>> THEN Append(acc, cur)
    ELSE IF Head(text) = "\n" THEN SplitAcc(Tail(text), <<>>, Append(acc, cur))
    ELSE SplitAcc(Tail(text), Append(cur, Head(text)), acc)

Split(text) == SplitAcc(text, <<>>, <<>>)

\* JSON.parse: the record as a one-element sequence, <<>> when it throws.
\* Whitespace around the value is allowed.  "{E}" carries the id of "{1}".
ParseJSON(line) ==
    LET t == Trim(line)
    IN IF t = <<"{", "1", "}">> THEN <<Rec(1, Root, <<"a">>)>>
       ELSE IF t = <<"{", "2", "}">> THEN <<Rec(2, Root, <<"b">>)>>
       ELSE IF t = <<"{", "E", "}">> THEN <<Rec(1, Root, <<"c">>)>>
       ELSE <<>>

DataEvent(r, n) == [type |-> "data", data |-> <<r>>, n |-> n, error |-> ""]
ErrorEvent(msg) == [type |-> "error", data |-> <<>>, n |-> 0, error |-> msg]
CompleteEvent(n) == [type |-> "complete", data |-> <<>>, n |-> n, error |-> ""]

\* ProcessLine without lines 54-57: a parse error is logged, not posted
ProcessLineSilent(g, line) ==
    IF Trim(line) = <<>> THEN g
    ELSE LET parsed == ParseJSON(line)
             h == [g EXCEPT !.attempts = Append(@, [line |-> line,
                                                    final |-> FALSE])]
         IN IF parsed # <<>>
            THEN [h EXCEPT !.items = Append(@, parsed[1]),
                           !.processed = @ + 1,
                           !.events = Append(@, DataEvent(parsed[1],
                                                         g.processed + 1))]
            ELSE h

\* lines 35-58: the body of the loop over the complete lines
ProcessLine(g, line) ==
    IF Trim(line) = <<>> THEN g
    ELSE LET parsed == ParseJSON(line)
             h == [g EXCEPT !.attempts = Append(@, [line |-> line,
                                                    final |-> FALSE])]
         IN IF parsed # <<>>
            THEN [h EXCEPT !.items = Append(@, parsed[1]),
                           !.processed = @ + 1,
                           !.events = Append(@, DataEvent(parsed[1],
                                                         g.processed + 1))]
            ELSE [h EXCEPT !.events = Append(@, ErrorEvent("Parse error"))]

RECURSIVE ProcessLines(_, _)
ProcessLines(g, lines) ==
    IF lines = <<>> THEN g
    ELSE ProcessLines(ProcessLine(g, Head(lines)), Tail(lines))

\* Remainder that keeps nothing: every chunk is cut into lines on its own
RemainderDropped(lines) == <<>>

\* line 32: lines.pop() || ""
Remainder(lines) == lines[Len(lines)]

\* lines 27-59: decode the chunk, split, keep the last segment, parse the rest
ProcessChunk(g, value) ==
    LET dec == Decode(g.pending, value)
        lines == Split(g.buffer \o dec.out)
        h == [g EXCEPT !.pending = dec.pending, !.buffer = Remainder(lines)]
        c == g.rest # <<>> /\ (Remainder(lines) # <<>> \/ dec.pending # <<>>)
    IN ProcessLines([h EXCEPT !.carried = @ \/ c],
                    SubSeq(lines, 1, Len(lines) - 1))

\* ProcessFinal that reports the remainder as the loop reports a line
ProcessFinalReported(g) ==
    IF Trim(g.buffer) = <<>> THEN g
    ELSE ProcessLine([g EXCEPT !.attempts = Append(@, [line |-> g.buffer,
                                                       final |-> TRUE])],
                     g.buffer)

\* lines 62-77: what is left in the buffer when the stream ends
ProcessFinal(g) ==
    IF Trim(g.buffer) = <<>> THEN g
    ELSE LET parsed == ParseJSON(g.buffer)
             h == [g EXCEPT !.attempts = Append(@, [line |-> g.buffer,
                                                    final |-> TRUE])]
         IN IF parsed # <<>>
            THEN [h EXCEPT !.items = Append(@, parsed[1]),
                           !.processed = @ + 1,
                           !.events = Append(@, DataEvent(parsed[1],
                                                         g.processed + 1))]
            ELSE h

\* lines 85-91: the outer catch
Catch(g) == [g EXCEPT !.pc = "failed",
                      !.events = Append(@, ErrorEvent("failure"))]

\* batchInsert(items): lines 107-111, the write loop is BatchInsertTx
StartFlush == batch' = [batch EXCEPT !.items = ingest.items, !.index = 0,
                                     !.batchSize = WorkerBatchSize,
                                     !.active = TRUE]

\* batchInsert has written every slice and returns (line 129)
Flushed == batch.active /\ batch.index >= Len(batch.items)

EndFlush == batch' = [NoBatch EXCEPT !.stale = batch.stale]

\* lines 3-6: INIT_PARSE arrives and the fetch starts
IngestStart ==
    /\ ingest.pc = "idle"
    /\ ingest' = [ingest EXCEPT !.pc = "fetch"]
    /\ UNCHANGED <<schema, search, boot, dbVars, idxVars, batch, pager, nav, reads, viewVars>>

\* lines 6-20: the response is there, the first read is issued
FetchOk ==
    /\ ingest.pc = "fetch"
    /\ ingest' = [ingest EXCEPT !.pc = "read"]
    /\ UNCHANGED <<schema, search, boot, dbVars, idxVars, batch, pager, nav, reads, viewVars>>

\* line 6 or 7 throws
FetchFail ==
    /\ ingest.pc = "fetch"
    /\ ingest' = Catch(ingest)
    /\ UNCHANGED <<schema, search, boot, dbVars, idxVars, batch, pager, nav, reads, viewVars>>

\* lines 20-60: the reader delivers the next k bytes
ReadChunk(k) ==
    /\ ingest.pc = "read"
    /\ k \in 1..Len(ingest.rest)
    /\ LET value == SubSeq(ingest.rest, 1, k)
           g == [ingest EXCEPT !.rest = SubSeq(@, k + 1, Len(@))]
       IN IF Len(ingest.items) >= FlushAt
          THEN /\ ingest' = [g EXCEPT !.pc = "flush", !.value = value]
               /\ StartFlush
          ELSE /\ ingest' = ProcessChunk(g, value)
               /\ UNCHANGED batch
    /\ UNCHANGED <<schema, search, boot, dbVars, idxVars, pager, nav, reads, viewVars>>

\* ReadFail that goes on reading after it has reported the failure
ReadFailRetry ==
    /\ ingest.pc = "read"
    /\ ingest' = [Catch(ingest) EXCEPT !.pc = "read"]
    /\ UNCHANGED <<schema, search, boot, dbVars, idxVars, batch, pager, nav, reads, viewVars>>

\* line 20 rejects
ReadFail ==
    /\ ingest.pc = "read"
    /\ ingest' = Catch(ingest)
    /\ UNCHANGED <<schema, search, boot, dbVars, idxVars, batch, pager, nav, reads, viewVars>>

\* FlushReturn without line 25: the written items stay in the array
FlushReturnKeepItems ==
    /\ ingest.pc = "flush"
    /\ Flushed
    /\ ingest' = ProcessChunk([ingest EXCEPT !.pc = "read", !.value = <<>>,
                                 !.flushed = @ \o batch.items],
                              ingest.value)
    /\ EndFlush
    /\ UNCHANGED <<schema, search, boot, dbVars, idxVars, pager, nav, reads, viewVars>>

\* lines 24-59: the flush inside the loop has returned
FlushReturn ==
    /\ ingest.pc = "flush"
    /\ Flushed
    /\ ingest' = ProcessChunk([ingest EXCEPT !.pc = "read", !.value = <<>>,
                                 !.items = <<>>,
                                 !.flushed = @ \o batch.items],
                              ingest.value)
    /\ EndFlush
    /\ UNCHANGED <<schema, search, boot, dbVars, idxVars, pager, nav, reads, viewVars>>

\* lines 20-22 and 62-84: the stream has ended
ReadEnd ==
    /\ ingest.pc = "read"
    /\ ingest.rest = <<>>
    /\ LET g == ProcessFinal(ingest)
       IN IF Len(g.items) > 0
          THEN /\ ingest' = [g EXCEPT !.pc = "final"]
               /\ batch' = [batch EXCEPT !.items = g.items, !.index = 0,
                                         !.batchSize = WorkerBatchSize,
                                         !.active = TRUE]
          ELSE /\ ingest' = [g EXCEPT !.pc = "done",
                                      !.events = Append(@,
                                          CompleteEvent(g.processed))]
               /\ UNCHANGED batch
    /\ UNCHANGED <<schema, search, boot, dbVars, idxVars, pager, nav, reads, viewVars>>

\* lines 81-84: the last flush has returned
FinalReturn ==
    /\ ingest.pc = "final"
    /\ Flushed
    /\ ingest' = [ingest EXCEPT !.pc = "done",
                                !.flushed = @ \o batch.items,
                                !.events = Append(@,
                                    CompleteEvent(ingest.processed))]
    /\ EndFlush
    /\ UNCHANGED <<schema, search, boot, dbVars, idxVars, pager, nav, reads, viewVars>>

\* batchInsert rejects: openFileDB or a transaction failed
FlushFail ==
    /\ ingest.pc \in {"flush", "final"}
    /\ batch.active
    /\ ingest' = Catch(ingest)
    /\ EndFlush
    /\ UNCHANGED <<schema, search, boot, dbVars, idxVars, pager, nav, reads, viewVars>>

(***************************************************************************)
(* SpecIngest: one run of the worker over each source, under every         *)
(* chunking and every failure.                                             *)
(***************************************************************************)
Sources ==
    { <<"{", "1", "}", "\n", "{", "2", "}", "\n">>,
      <<"{", "1", "}", "\n", "x", "\n", " ", "{", "2", "}">>,
      <<"{", "L", "T", "}", "\n", "\n", "{", "2", "}", "\n", "{", "1">>,
      <<"x", "\n", "{", "2", "}", "\n", "{", "1", "}", "\n", " ", "\n",
        "{", "L", "T", "}", "\n">>,
      <<"{", "1", "}", "\n", "{", "T", "}", "\n", "{", "2", "}", "L">> }

InitIngest ==
    /\ store = {}
    /\ byParentId = {}
    /\ nameIndex = {}
    /\ IdxIdle
    /\ batch = NoBatch
    /\ pager = NoPager
    /\ nav = NoNav
    /\ \E src \in Sources : ingest = [NoIngest EXCEPT !.source = src,
                                                      !.rest = src]
    /\ reads = NoReads /\ schema = CurrentSchema /\ search = NoSearch /\ boot = NoBoot
    /\ ViewIdle

NextIngest ==
    \/ IngestStart
    \/ FetchOk
    \/ FetchFail
    \/ \E k \in 1..Len(ingest.rest) : ReadChunk(k)
    \/ ReadFail
    \/ BatchInsertTx
    \/ FlushReturn
    \/ ReadEnd
    \/ FinalReturn
    \/ FlushFail

SpecIngest == InitIngest /\ [][NextIngest]_vars

\* what the source holds, whatever the chunking: its text, its lines (the
\* last one is the unterminated remainder) and the records of its valid lines
SourceLines == Split(Decode(<<>>, ingest.source).out)
Terminated == SubSeq(SourceLines, 1, Len(SourceLines) - 1)

RECURSIVE ValidOf(_)
ValidOf(lines) ==
    IF lines = <<>> THEN <<>> ELSE ParseJSON(Head(lines)) \o ValidOf(Tail(lines))

Unparsable(line) == ParseJSON(line) = <<>>
Malformed(line) == Trim(line) # <<>> /\ ParseJSON(line) = <<>>

IsData(e) == e.type = "data"
IsParseError(e) == e.type = "error" /\ e.error = "Parse error"
IsTerminal(e) == e.type = "error" /\ e.error # "Parse error"
IsComplete(e) == e.type = "complete"

Posted(Test(_)) == SelectSeq(ingest.events, Test)
DataRecords == [i \in 1..Len(Posted(IsData)) |-> Posted(IsData)[i].data[1]]
StoreOf(recs) == PutAll([files |-> {}, byParentId |-> {}], recs).files

C14_OneTerminalEvent ==
    LET ends == {i \in 1..Len(ingest.events) :
                    IsTerminal(ingest.events[i]) \/ IsComplete(ingest.events[i])}
    IN /\ Cardinality(ends) <= 1
       /\ \A i \in ends : i = Len(ingest.events)
       /\ ingest.pc = "failed" =>
             /\ Len(Posted(IsTerminal)) = 1
             /\ Posted(IsComplete) = <<>>
       /\ ingest.pc = "done" => Len(Posted(IsComplete)) = 1
       /\ ingest.pc \notin {"failed", "done"} => ends = {}

\* the last flush failed after records had been written and announced
C14_Witness ==
    /\ ingest.pc = "failed"
    /\ ingest.rest = <<>>
    /\ store # {}
    /\ Posted(IsData) # <<>>
    /\ Posted(IsParseError) # <<>>

\* C15: when complete is posted, the records of the data events are, in
\* order and each once, the records the finished flushes wrote; they are in
\* the store; what is left in the array has been written; no flush is running.
C15_FlushedOnce ==
    ingest.pc = "done" =>
        /\ ingest.flushed = DataRecords
        /\ store = StoreOf(DataRecords)
        /\ ~batch.active
        /\ \E n \in 0..Len(ingest.flushed) :
              ingest.items = SubSeq(ingest.flushed, n + 1, Len(ingest.flushed))

\* complete after a flush inside the loop and the final flush
C15_Witness ==
    /\ ingest.pc = "done"
    /\ ingest.items # <<>>
    /\ Len(ingest.flushed) > Len(ingest.items)

\* the texts handed to JSON.parse inside the loop
LoopAttempts ==
    LET a == SelectSeq(ingest.attempts, LAMBDA x : ~x.final)
    IN [i \in 1..Len(a) |-> a[i].line]

NotBlank(line) == Trim(line) # <<>>

\* C16: whatever the chunks, the lines parsed inside the loop are complete
\* lines of the source, in order; only the unterminated remainder is parsed
\* after the loop; and a finished run has posted the records of the valid
\* lines of the source, one error per malformed terminated line, and a
\* processed count equal to the number of valid lines.
C16_ChunkIndependent ==
    /\ \E n \in 0..Len(Terminated) :
          LoopAttempts = SelectSeq(SubSeq(Terminated, 1, n), NotBlank)
    /\ \A i \in 1..Len(ingest.attempts) :
          ingest.attempts[i].final =>
             /\ ingest.rest = <<>>
             /\ i = Len(ingest.attempts)
             /\ ingest.attempts[i].line = SourceLines[Len(SourceLines)]
    /\ ingest.pc = "done" =>
          /\ LoopAttempts = SelectSeq(Terminated, NotBlank)
          /\ DataRecords = ValidOf(SourceLines)
          /\ Len(Posted(IsParseError)) = Len(SelectSeq(Terminated, Malformed))
          /\ ingest.processed = Len(ValidOf(SourceLines))

\* a finished run whose chunks ended inside lines
C16_Witness ==
    /\ ingest.pc = "done"
    /\ ingest.carried
    /\ Posted(IsParseError) # <<>>
    /\ Len(DataRecords) >= 2

\* C17 as stated: the array of parsed records never holds more than the
\* batch size.
C17_BufferBounded == Len(ingest.items) <= FlushAt

(***************************************************************************)
(* The read functions, one call at a time, with insertFiles between their  *)
(* steps.                                                                  *)
(***************************************************************************)
\* the call starts: openFileDB() is awaited (lines 172, 195, 279)
ReadCall(op, parent, id, offset) ==
    /\ reads.pc \in {"idle", "settled"}
    /\ reads' = [reads EXCEPT !.pc = "open", !.op = op, !.parent = parent,
                              !.id = id, !.limit = BATCH_SIZE,
                              !.offset = offset,
                              !.failure = "none", !.outcome = "pending",
                              !.result = <<>>]
    /\ UNCHANGED <<schema, search, boot, dbVars, idxVars, batch, pager, nav, ingest, viewVars>>

\* openFileDB resolves and the try block is entered
ReadOpenOk ==
    /\ reads.pc = "open"
    /\ reads' = [reads EXCEPT !.pc = "tx"]
    /\ UNCHANGED <<schema, search, boot, dbVars, idxVars, batch, pager, nav, ingest, viewVars>>

\* openFileDB rejects: the await stands before the try, the call rejects
ReadOpenFail ==
    /\ reads.pc = "open"
    /\ reads' = [reads EXCEPT !.pc = "settled", !.failure = "open",
                              !.outcome = "rejected"]
    /\ UNCHANGED <<schema, search, boot, dbVars, idxVars, batch, pager, nav, ingest, viewVars>>

\* the value the try block returns
ReadValue ==
    IF reads.op = "count"
    THEN <<countChildrenByParentId(byParentId, reads.parent)>>
    ELSE IF reads.op = "list"
    THEN getFilesByParentId(store, byParentId, reads.parent, reads.limit,
                            reads.offset)
    ELSE getFileById(store, reads.id)

\* the value the catch block returns: 0, [], null
ReadDefault(op) == IF op = "count" THEN <<0>> ELSE <<>>

\* the transaction reads and the call returns
ReadOk ==
    /\ reads.pc = "tx"
    /\ reads' = [reads EXCEPT !.pc = "settled", !.outcome = "resolved",
                              !.result = ReadValue]
    /\ UNCHANGED <<schema, search, boot, dbVars, idxVars, batch, pager, nav, ingest, viewVars>>

\* the transaction, the count or the cursor throws inside the try
ReadError ==
    /\ reads.pc = "tx"
    /\ reads' = [reads EXCEPT !.pc = "settled", !.failure = "read",
                              !.outcome = "resolved",
                              !.result = ReadDefault(reads.op)]
    /\ UNCHANGED <<schema, search, boot, dbVars, idxVars, batch, pager, nav, ingest, viewVars>>

\* insertFiles([r])
InsertOne(r) ==
    /\ InsertFilesTx(<<r>>)
    /\ reads' = [reads EXCEPT !.last[r.id] =
                    [rec |-> <<r>>,
                     replaced |-> @.replaced \/ (@.rec # <<>> /\ @.rec # <<r>>)]]
    /\ UNCHANGED <<schema, search, boot, idxVars, batch, pager, nav, ingest, viewVars>>

ReadItems ==
    {Rec(id, p, n) : id \in Ids, p \in IdxParents,
                     n \in {<<"a", "b", "c">>, <<"b", "c", "a", "b", "c">>}}

\* the calls made: a count and a list take a parent (and an offset), a get
\* takes an id, which may be one no record has
ReadCalls ==
    {[op |-> "count", parent |-> p, id |-> 1, offset |-> 0] :
        p \in IdxParents}
      \cup {[op |-> "list", parent |-> p, id |-> 1, offset |-> o] :
                p \in IdxParents, o \in {0, 1}}
      \cup {[op |-> "get", parent |-> Root, id |-> i, offset |-> 0] :
                i \in Ids \cup {MaxId + 1}}

InitRead ==
    /\ store = {}
    /\ byParentId = {}
    /\ nameIndex = {}
    /\ IdxIdle
    /\ batch = NoBatch
    /\ pager = NoPager
    /\ nav = NoNav
    /\ ingest = NoIngest
    /\ reads = NoReads /\ schema = CurrentSchema /\ search = NoSearch /\ boot = NoBoot
    /\ ViewIdle

NextRead ==
    \/ \E c \in ReadCalls : ReadCall(c.op, c.parent, c.id, c.offset)
    \/ ReadOpenOk
    \/ ReadOpenFail
    \/ ReadOk
    \/ ReadError
    \/ \E r \in ReadItems : InsertOne(r)

SpecRead == InitRead /\ [][NextRead]_vars

\* C18 as stated: a read call in which the open or the read failed resolves
\* to 0, to the empty list or to null, and never rejects.
C18_ReadsDegrade ==
    (reads.pc = "settled" /\ reads.failure # "none") =>
        /\ reads.outcome = "resolved"
        /\ reads.result = ReadDefault(reads.op)

\* C19: after each insertFiles, getFileById of every id gives the record
\* written last for that id, equal in every field, and null for an id never
\* written; the store holds at most one record per id; and a getFileById
\* call that returns gives the record written last for its id.
C19_RoundTrip ==
    [][/\ \A id \in Ids :
            /\ getFileById(store', id) = reads'.last[id].rec
            /\ Cardinality({r \in store' : r.id = id}) <= 1
       /\ (reads.pc = "tx" /\ reads'.pc = "settled" /\ reads.op = "get"
             /\ reads'.failure = "none") =>
            reads'.result = IF reads.id \in Ids
                            THEN reads.last[reads.id].rec ELSE <<>>
      ]_vars

\* getFileById returned the second record written under an id
C19_Witness ==
    /\ reads.pc = "settled"
    /\ reads.op = "get"
    /\ reads.outcome = "resolved"
    /\ reads.failure = "none"
    /\ reads.id \in Ids
    /\ reads.last[reads.id].replaced
    /\ reads.result # <<>>
    /\ reads.result = reads.last[reads.id].rec

(***************************************************************************)
(* SpecQuery: searches with short and long queries over several store      *)
(* contents, with the index builds they start.                             *)
(***************************************************************************)
ShortQueries == {<<>>, <<" ", " ", " ">>, <<" ", "A", "b", " ">>}
LongQueries == {<<" ", "A", "b", "c">>}

InitQuery ==
    /\ \E S \in SUBSET SeedRecords :
          /\ store = S
          /\ byParentId = {<<r.parent_id, r.id>> : r \in S}
    /\ nameIndex = {}
    /\ IdxIdle
    /\ batch = NoBatch
    /\ pager = NoPager
    /\ nav = NoNav
    /\ ingest = NoIngest
    /\ reads = NoReads /\ schema = CurrentSchema /\ search = NoSearch /\ boot = NoBoot
    /\ ViewIdle

NextQuery ==
    \/ \E c \in Callers, q \in ShortQueries \cup LongQueries,
          p \in IdxParents : SearchCall(c, q, p, MaxId)
    \/ \E b \in 1..Len(builds) : BuildOpenOk(b)
    \/ \E b \in 1..Len(builds) : BuildOpenFail(b)
    \/ \E b \in 1..Len(builds) : BuildCommit(b)
    \/ \E b \in 1..Len(builds) : BuildTxFail(b)
    \/ \E c \in Callers : Resume(c)
    \/ \E c \in Callers : SearchQuery(c)
    \/ \E c \in Callers : SearchQueryFail(c)
    \/ \E c \in Callers : SearchOpenFail(c)
    \/ \E c \in Callers : Return(c)

SpecQuery == InitQuery /\ [][NextQuery]_vars

ShortQuery(q) == Len(ToLowerCase(Trim(q))) < TRIGRAM_SIZE

\* C20: a search call whose trimmed, lower-cased query has fewer than three
\* characters returns the empty list at once and changes neither the
\* stores, nor the postings, nor the Indexed memo, nor the in-flight map, nor
\* the builds, nor any other call.
C20_ShortQueryNoEffect ==
    [][\A c \in Callers :
          (calls[c].pc = "idle" /\ calls'[c].kind = "search"
             /\ ShortQuery(calls'[c].q)) =>
             /\ calls'[c].pc = "searchDone"
             /\ calls'[c].result = <<>>
             /\ \A d \in Callers \ {c} : calls'[d] = calls[d]
             /\ UNCHANGED <<schema, search, boot, store, byParentId, nameIndex, indexedParents,
                            indexingInFlight, builds>>
      ]_vars

\* a query of four characters, two of them blanks, has returned nothing
\* while the build another search started is in flight
C20_Witness ==
    \E c \in Callers :
       /\ calls[c].kind = "search"
       /\ calls[c].pc = "searchDone"
       /\ Len(calls[c].q) > TRIGRAM_SIZE
       /\ ShortQuery(calls[c].q)
       /\ calls[c].result = <<>>
       /\ store # {}
       /\ \E b \in 1..Len(builds) : ~Settled(b)

(***************************************************************************)
(* SpecEdit: copy, cut, paste and delete over rows ticked one by one, with *)
(* no filter and no storage failure.                                       *)
(***************************************************************************)
\* handleRowClick, a plain click: the row is ticked or unticked
RowClick(id) ==
    /\ ui.pc = "idle"
    /\ \E i \in 1..Len(activeFiles) : activeFiles[i].id = id
    /\ selectedRows' = IF id \in selectedRows THEN selectedRows \ {id}
                       ELSE selectedRows \cup {id}
    /\ UNCHANGED <<schema, search, boot, dbVars, idxVars, clientVars, files, totalCount, clipboard,
                   clipboardOperation, currentParentId, tableParentId,
                   filteredFiles, filterActive, ui>>

NextEdit ==
    \/ \E p \in IdxParents : ShowFolder(p)
    \/ \E id \in 1..(MaxId + MaxItems) : RowClick(id)
    \/ copySelected
    \/ cutSelected
    \/ PasteStart
    \/ PasteCutDelete
    \/ PasteInsert
    \/ DeleteStart
    \/ DeleteCommit

SpecEdit == InitView /\ [][NextEdit]_vars

\* the step in which the insertFiles of a paste commits
CopyCommitted == ui.op = "copy" /\ ui.pc = "insert" /\ ui'.pc = "idle"
CutCommitted == ui.op = "cut" /\ ui.pc = "insert" /\ ui'.pc = "idle"

\* C21: a copy-paste of the k clipboard items adds k records to the store,
\* with ids that differ from each other and from every stored id, the table's
\* folder as parent and the original name followed by " copy"; every record
\* stored before is stored unchanged after; the page grows by the k copies
\* and totalCount by k.
C21_CopyPaste ==
    [][CopyCommitted =>
          LET k == Len(clipboard)
              made == store' \ store
          IN /\ k > 0
             /\ Cardinality(made) = k
             /\ Cardinality({r.id : r \in made}) = k
             /\ \A r \in made : ~HasId(store, r.id)
             /\ store \subseteq store'
             /\ \A i \in 1..k : \E r \in made :
                   /\ r.parent_id = tableParentId
                   /\ r.name = clipboard[i].name \o <<" ", "c", "o", "p", "y">>
                   /\ files'[Len(files) + i] = r
             /\ Len(files') = Len(files) + k
             /\ SubSeq(files', 1, Len(files)) = files
             /\ totalCount' = totalCount + k
      ]_vars

\* two rows were copied and pasted at once
C21_Witness ==
    /\ ui.pc = "idle"
    /\ ui.copies = 2
    /\ Cardinality(store) = MaxId + 2
    /\ \E i, j \in 1..Len(files) :
          /\ files[i].id = MaxId + 1
          /\ files[j].id = MaxId + 2
          /\ files[i] \in store
          /\ files[j] \in store
          /\ files[i].name # files[j].name

MovedIds == {ui.items[i].id : i \in 1..Len(ui.items)}

\* C22 as stated: a cut-paste keeps each item's id, gives it the table's
\* folder as parent and leaves the number of stored records as it was when
\* the paste began; rows of the page that were moved are replaced in place,
\* the other moved items are appended, and totalCount grows by the number of
\* appended items.
C22_CutPaste ==
    [][CutCommitted =>
          /\ \A i \in 1..Len(clipboard) :
                /\ HasId(store', clipboard[i].id)
                /\ Get(store', clipboard[i].id) =
                      [clipboard[i] EXCEPT !.parent_id = tableParentId]
          /\ Cardinality(store') = Cardinality(store) + Cardinality(ui.had)
          /\ Len(files') = Len(files) + Len(ui.toAdd)
          /\ \A i \in 1..Len(files) :
                files'[i] = IF files[i].id \in MovedIds
                            THEN [files[i] EXCEPT !.parent_id = tableParentId]
                            ELSE files[i]
          /\ \A i \in 1..Len(ui.toAdd) :
                /\ files'[Len(files) + i] = ui.toAdd[i]
                /\ \A j \in 1..Len(files) : files[j].id # ui.toAdd[i].id
          /\ totalCount' = totalCount + Len(ui.toAdd)
      ]_vars

\* C23 as stated: totalCount is never negative in any state of the store,
\* the state between fileStore.deleteFiles and setTotalCount included.
C23_TotalNeverNegative == totalCount >= 0 /\ ui.storeTotal >= 0

(***************************************************************************)
(* SpecTok: one record of every name of up to MaxLen characters, and the   *)
(* build that tokenizes it.                                                *)
(***************************************************************************)
TokNames == UNION {[1..n -> {"a", "B", " "}] : n \in 0..MaxLen}

InitTok ==
    /\ \E name \in TokNames :
          /\ store = {Rec(1, Root, name)}
          /\ byParentId = {<<Root, 1>>}
    /\ nameIndex = {}
    /\ IdxIdle
    /\ batch = NoBatch
    /\ pager = NoPager
    /\ nav = NoNav
    /\ ingest = NoIngest
    /\ reads = NoReads /\ schema = CurrentSchema /\ search = NoSearch /\ boot = NoBoot
    /\ ViewIdle

NextTok ==
    \/ EnsureCall(1, Root)
    \/ \E b \in 1..Len(builds) : BuildOpenOk(b)
    \/ \E b \in 1..Len(builds) : BuildCommit(b)
    \/ Resume(1)
    \/ Return(1)

SpecTok == InitTok /\ [][NextTok]_vars

Normalized(name) == ToLowerCase(Trim(name))
Windows(n) == {SubSeq(n, i, i + TRIGRAM_SIZE - 1) :
                  i \in 1..(Len(n) - TRIGRAM_SIZE + 1)}

\* C24: the tokens of a name are the distinct windows of three characters of
\* its trimmed, lower-cased form, each once; there is none when that form is
\* shorter than three characters; two names with the same normalized form
\* have the same tokens; and these are the tokens the build posts.
C24_Tokenize ==
    \A r \in store :
        LET tokens == buildTrigrams(r.name)
            n == Normalized(r.name)
        IN /\ Range(tokens) = Windows(n)
           /\ Len(tokens) = Cardinality(Windows(n))
           /\ Len(n) < TRIGRAM_SIZE => tokens = <<>>
           /\ \A m \in TokNames :
                 Normalized(m) = n => buildTrigrams(m) = tokens
           /\ ParentKey(Root) \in indexedParents =>
                 {x.token : x \in nameIndex} = Windows(n)

\* a name with blanks around and capitals, whose four normalized characters
\* give one token twice, has been indexed
C24_Witness ==
    /\ ParentKey(Root) \in indexedParents
    /\ \E r \in store :
          /\ Trim(r.name) # r.name
          /\ Normalized(r.name) # Trim(r.name)
          /\ Len(Normalized(r.name)) > Cardinality(Windows(Normalized(r.name)))
                                          + TRIGRAM_SIZE - 1
          /\ Cardinality({x.token : x \in nameIndex}) = 1

(***************************************************************************)
(* openFileDB's upgrade callback.  db is the database inside the           *)
(* versionchange transaction: the store and index names, the records, the  *)
(* entries of byParentId and the postings.  error: a call threw, the       *)
(* transaction aborts and the open is rejected.                            *)
(***************************************************************************)
\* IDBDatabase.createObjectStore: throws when the name is taken; a new store
\* is empty
createObjectStore(db, name) ==
    IF name \in db.stores THEN [db EXCEPT !.error = TRUE]
    ELSE IF name = STORE_NAME
         THEN [db EXCEPT !.stores = @ \cup {name}, !.files = {},
                         !.byParentId = {}]
         ELSE [db EXCEPT !.stores = @ \cup {name}, !.postings = {}]

\* IDBObjectStore.createIndex: throws when the name is taken; the new index is
\* filled from the records the store holds
createIndex(db, index) ==
    IF index \in db.indexes \/ IndexStore(index) \notin db.stores
    THEN [db EXCEPT !.error = TRUE]
    ELSE [db EXCEPT !.indexes = @ \cup {index},
                    !.byParentId = IF index = "byParentId"
                                   THEN {<<r.parent_id, r.id>> : r \in db.files}
                                   ELSE @]

\* upgrade with the two indexes of the posting store created without asking
\* whether they exist
upgradeCreateIndexes(db) ==
    LET withStore == IF STORE_NAME \notin db.stores
                     THEN createObjectStore(db, STORE_NAME) ELSE db
        withParent == IF "byParentId" \notin withStore.indexes
                      THEN createIndex(withStore, "byParentId") ELSE withStore
        indexStore == IF NAME_INDEX_STORE \notin withParent.stores
                      THEN createObjectStore(withParent, NAME_INDEX_STORE)
                      ELSE withParent
    IN createIndex(createIndex(indexStore, "byToken"), "byTokenParent")

upgrade(db) ==
    LET withStore == IF STORE_NAME \notin db.stores
                     THEN createObjectStore(db, STORE_NAME) ELSE db
        withParent == IF "byParentId" \notin withStore.indexes
                      THEN createIndex(withStore, "byParentId") ELSE withStore
    IN IF NAME_INDEX_STORE \notin withParent.stores
       THEN createIndex(createIndex(
                createObjectStore(withParent, NAME_INDEX_STORE),
                "byToken"), "byTokenParent")
       ELSE LET withToken == IF "byToken" \notin withParent.indexes
                             THEN createIndex(withParent, "byToken")
                             ELSE withParent
            IN IF "byTokenParent" \notin withToken.indexes
               THEN createIndex(withToken, "byTokenParent") ELSE withToken

\* openFileDB on a database of an earlier version: openDB runs upgrade in one
\* transaction and stores DB_VERSION when it commits
OpenUpgrade ==
    /\ schema.version = "earlier"
    /\ LET found == [stores |-> schema.stores, indexes |-> schema.indexes]
           db == upgrade([stores |-> schema.stores, indexes |-> schema.indexes,
                          files |-> store, byParentId |-> byParentId,
                          postings |-> nameIndex, error |-> FALSE])
       IN IF db.error
          THEN /\ schema' = [schema EXCEPT !.opened = "failed",
                                           !.before = found]
               /\ UNCHANGED <<store, byParentId, nameIndex>>
          ELSE /\ schema' = [version |-> "current", stores |-> db.stores,
                             indexes |-> db.indexes, opened |-> "ok",
                             before |-> found]
               /\ store' = db.files
               /\ byParentId' = db.byParentId
               /\ nameIndex' = db.postings
    /\ UNCHANGED <<search, boot, idxVars, clientVars, viewVars>>

\* openFileDB on a database of version DB_VERSION: upgrade is not called
OpenCurrent ==
    /\ schema.version = "current"
    /\ schema' = [schema EXCEPT !.opened = "ok"]
    /\ UNCHANGED <<search, boot, dbVars, idxVars, clientVars, viewVars>>

(***************************************************************************)
(* SpecSchema: openFileDB on every database an earlier version of the      *)
(* schema can have left: any of the two stores, any of their indexes, and   *)
(* any of the seed records and postings in the stores that exist.          *)
(***************************************************************************)
SchemaPostings ==
    {[token |-> <<"a", "b", "c">>, fileId |-> 1, parent_id |-> Root],
     [token |-> <<"b", "c", "a">>, fileId |-> 2, parent_id |-> 1]}

InitSchema ==
    /\ \E v \in {"earlier", "current"}, ss \in SUBSET StoreNames,
          ix \in SUBSET IndexNames, rs \in SUBSET SeedRecords,
          ps \in SUBSET SchemaPostings :
          /\ \A i \in ix : IndexStore(i) \in ss
          /\ v = "current" => ss = StoreNames /\ ix = IndexNames
          /\ STORE_NAME \notin ss => rs = {}
          /\ NAME_INDEX_STORE \notin ss => ps = {}
          /\ schema = [version |-> v, stores |-> ss, indexes |-> ix,
                       opened |-> "no", before |-> NoNames]
          /\ store = rs
          /\ byParentId = IF "byParentId" \in ix
                          THEN {<<r.parent_id, r.id>> : r \in rs} ELSE {}
          /\ nameIndex = ps
    /\ IdxIdle
    /\ batch = NoBatch
    /\ pager = NoPager
    /\ nav = NoNav
    /\ ingest = NoIngest
    /\ reads = NoReads /\ search = NoSearch /\ boot = NoBoot
    /\ ViewIdle

NextSchema ==
    \/ OpenUpgrade
    \/ OpenCurrent

SpecSchema == InitSchema /\ [][NextSchema]_vars

\* C25: openFileDB on a database of an earlier schema succeeds, keeps every
\* record and every posting, leaves an existing parent index as it was, and
\* ends with both stores and the three indexes, the parent index holding one
\* entry per record
C25_SchemaUpgrade ==
    [][schema.version = "earlier" /\ schema' # schema =>
          /\ schema'.opened = "ok"
          /\ schema'.version = "current"
          /\ store' = store
          /\ nameIndex' = nameIndex
          /\ schema.stores \subseteq schema'.stores
          /\ schema.indexes \subseteq schema'.indexes
          /\ "byParentId" \in schema.indexes => byParentId' = byParentId
          /\ schema'.stores = StoreNames
          /\ schema'.indexes = IndexNames
          /\ byParentId' = {<<r.parent_id, r.id>> : r \in store}]_vars

\* an upgrade of a database that had both stores, both seed records and both
\* postings, but of the indexes only byToken
C25_Witness ==
    /\ schema.opened = "ok"
    /\ schema.before = [stores |-> StoreNames, indexes |-> {"byToken"}]
    /\ schema.indexes = IndexNames
    /\ store = SeedRecords
    /\ nameIndex = SchemaPostings
    /\ byParentId = {<<r.parent_id, r.id>> : r \in SeedRecords}

(***************************************************************************)
(* The remainder at the end of the stream (SpecIngest).                    *)
(***************************************************************************)
FinalParsed(g) ==
    LET a == SelectSeq(g.attempts, LAMBDA x : x.final)
    IN IF a = <<>> THEN <<>> ELSE ParseJSON(a[1].line)

\* C26: when the reader reports the end with an unterminated line in the
\* buffer, a line that parses is counted, posted as a data event and put in
\* the array the last flush writes; a line that does not parse changes neither
\* the count nor the array and posts nothing; the step never fails the run,
\* and a run that is done has posted complete last, with the remainder's
\* record written and stored if it parsed.
C26_FinalLine ==
    [][/\ ingest.pc = "read" /\ ingest'.pc \in {"final", "done"} =>
            LET parsed == ParseJSON(ingest.buffer)
                posted == SubSeq(ingest'.events, Len(ingest.events) + 1,
                                 Len(ingest'.events))
                end == IF ingest'.pc = "done"
                       THEN <<CompleteEvent(ingest'.processed)>> ELSE <<>>
            IN IF parsed # <<>>
               THEN /\ ingest'.processed = ingest.processed + 1
                    /\ posted = <<DataEvent(parsed[1], ingest.processed + 1)>>
                    /\ ingest'.items = Append(ingest.items, parsed[1])
                    /\ ingest'.pc = "final"
               ELSE /\ ingest'.processed = ingest.processed
                    /\ posted = end
                    /\ ingest'.items = ingest.items
       /\ ingest'.pc = "done" =>
            /\ ingest'.events[Len(ingest'.events)]
                   = CompleteEvent(ingest'.processed)
            /\ FinalParsed(ingest') # <<>> =>
                  /\ ingest'.flushed # <<>>
                  /\ ingest'.flushed[Len(ingest'.flushed)]
                         = FinalParsed(ingest')[1]
                  /\ HasId(store', FinalParsed(ingest')[1].id)]_vars

\* a run that is done over a source whose last line has no newline and
\* parses, after a malformed line was reported
C26_Witness ==
    /\ ingest.pc = "done"
    /\ FinalParsed(ingest) # <<>>
    /\ FinalParsed(ingest)[1] \in store
    /\ Len(Posted(IsParseError)) = 1
    /\ IsData(ingest.events[Len(ingest.events) - 1])

(***************************************************************************)
(* SpecList: getFilesByParentId with every limit and offset up to one more *)
(* than the number of ids, between writes to the store.                    *)
(***************************************************************************)
\* getFilesByParentId(parent, limit, offset) starts: openFileDB() is awaited
ListCall(parent, limit, offset) ==
    /\ reads.pc \in {"idle", "settled"}
    /\ reads' = [reads EXCEPT !.pc = "open", !.op = "list",
                              !.parent = parent, !.limit = limit,
                              !.offset = offset, !.failure = "none",
                              !.outcome = "pending", !.result = <<>>]
    /\ UNCHANGED <<schema, search, boot, dbVars, idxVars, batch, pager, nav, ingest, viewVars>>

ListArgs == 0..(MaxId + 1)

NextList ==
    \/ \E p \in IdxParents, limit \in ListArgs, offset \in ListArgs :
          ListCall(p, limit, offset)
    \/ ReadOpenOk
    \/ ReadOpenFail
    \/ ReadOk
    \/ ReadError
    \/ \E item \in StoreItems : InsertFiles(<<item>>)
    \/ \E id \in Ids : DeleteFilesByIds(<<id>>)

SpecList == InitRead /\ [][NextList]_vars

\* C29: a getFilesByParentId(parent, limit, offset) whose transaction reads
\* the store returns min(limit, max(0, N - offset)) records, N being the
\* number of children of parent: none when offset >= N or limit = 0, never
\* more than limit, and they are the children at positions offset + 1 onward.
C29_PageLength ==
    [][(reads.pc = "tx" /\ reads.op = "list"
            /\ reads'.pc = "settled" /\ reads'.failure = "none") =>
          LET N == countChildrenByParentId(byParentId, reads.parent)
              children == ChildIds(byParentId, reads.parent)
              page == reads'.result
          IN /\ Len(page) = Min(reads.limit, Max(0, N - reads.offset))
             /\ (reads.offset >= N \/ reads.limit = 0) => page = <<>>
             /\ Len(page) <= reads.limit
             /\ \A i \in 1..Len(page) :
                   page[i] = Get(store, children[reads.offset + i])]_vars

\* a page cut short by the end of the children, and not by the limit
C29_Witness ==
    /\ reads.pc = "settled"
    /\ reads.op = "list"
    /\ reads.failure = "none"
    /\ reads.limit = 2
    /\ reads.offset = 1
    /\ countChildrenByParentId(byParentId, reads.parent) = 2
    /\ Len(reads.result) = 1
    /\ reads.result[1] \in store
    /\ reads.result[1].parent_id = reads.parent

(***************************************************************************)
(* SpecSound: searches under the root between insertFiles calls of one    *)
(* item or of two items of one id, deleteFilesByIds calls and index        *)
(* builds; batchInsert is not called.                                      *)
(***************************************************************************)
\* one item, or two items of one id (the later put replaces the earlier)
SoundSeqs == {<<a>> : a \in SearchItems}
               \cup {s \in [1..2 -> SearchItems] : s[1].id = s[2].id}

NextSound ==
    \/ \E q \in SearchQueries, l \in Limits : SearchCall(1, q, Root, l)
    \/ \E b \in 1..Len(builds) : BuildOpenOk(b)
    \/ \E b \in 1..Len(builds) : BuildCommit(b)
    \/ Resume(1)
    \/ SearchQuery(1)
    \/ Return(1)
    \/ \E items \in SoundSeqs : InsertFiles(items)
    \/ \E ids \in IdSeqs : DeleteFilesByIds(ids)

SpecSound == InitSearch /\ [][NextSound]_vars

\* C30: every record a search returns is in the record store when the query
\* transaction runs, has the parent searched, and has a lower-cased name that
\* contains the normalized query; no record is returned twice and no more
\* than limit records are returned.
C30_SearchSound ==
    [][\A c \in Callers : QueryStep(c) =>
          LET result == calls'[c].result
          IN /\ Len(result) <= calls[c].limit
             /\ \A i \in 1..Len(result) :
                   /\ result[i] \in store
                   /\ result[i].parent_id = calls[c].p
                   /\ Includes(ToLowerCase(result[i].name),
                               ToLowerCase(Trim(calls[c].q)))
             /\ \A i, j \in 1..Len(result) :
                   result[i].id = result[j].id => i = j]_vars

(***************************************************************************)
(* The index state of a parent (SpecIdx): Indexed when its key is in       *)
(* indexedParents, Building while a build of it has not settled,           *)
(* Unindexed otherwise.                                                    *)
(***************************************************************************)
IndexState(memo, promises, p) ==
    IF ParentKey(p) \in memo THEN "Indexed"
    ELSE IF \E b \in 1..Len(promises) :
               /\ promises[b].parent = p
               /\ promises[b].state \notin {"fulfilled", "rejected"}
         THEN "Building"
         ELSE "Unindexed"

\* C28: the index state of a parent changes only from Unindexed to Building,
\* from Building to Indexed, and from Building to Unindexed in a step in which
\* its build is rejected; a key is never taken out of indexedParents; only the
\* commit of a build of a parent not yet indexed writes postings; and a call
\* made for an indexed parent resolves at once, without a build and without
\* touching the stores.
C28_IndexStateForward ==
    [][/\ \A p \in IdxParents :
            LET was == IndexState(indexedParents, builds, p)
                is == IndexState(indexedParents', builds', p)
            IN /\ was # is => <<was, is>> \in {<<"Unindexed", "Building">>,
                                               <<"Building", "Indexed">>,
                                               <<"Building", "Unindexed">>}
               /\ <<was, is>> = <<"Building", "Unindexed">> =>
                     \E b \in 1..Len(builds) :
                        /\ builds[b].parent = p
                        /\ builds[b].state # "rejected"
                        /\ builds'[b].state = "rejected"
       /\ indexedParents \subseteq indexedParents'
       /\ nameIndex' # nameIndex =>
            \E b \in 1..Len(builds) :
               /\ builds[b].state = "scanning"
               /\ builds'[b].state = "fulfilled"
               /\ ParentKey(builds[b].parent) \notin indexedParents
       /\ \A c \in Callers :
            (calls[c].pc = "idle" /\ calls'[c].pc # "idle"
                /\ ParentKey(calls'[c].p) \in indexedParents) =>
               /\ calls'[c].role \in {"memo", "none"}
               /\ calls'[c].kind = "ensure" =>
                     /\ calls'[c].role = "memo"
                     /\ calls'[c].ens = "resolved"
                     /\ calls'[c].pc = "done"
               /\ builds' = builds
               /\ indexingInFlight' = indexingInFlight
               /\ nameIndex' = nameIndex
               /\ store' = store]_vars

\* a call returned at once for a parent that was indexed by its second
\* build, the first having failed
C28_Witness ==
    \E c \in Callers, b1, b2 \in 1..Len(builds) :
        /\ calls[c].kind = "ensure"
        /\ calls[c].role = "memo"
        /\ calls[c].pc = "done"
        /\ ParentKey(calls[c].p) \in indexedParents
        /\ b1 < b2
        /\ builds[b1].parent = calls[c].p
        /\ builds[b2].parent = calls[c].p
        /\ builds[b1].state = "rejected"
        /\ builds[b2].state = "fulfilled"
        /\ nameIndex # {}

(***************************************************************************)
(* SpecBuild: the builds of both parents over the seed records, between     *)
(* insertFiles and deleteFilesByIds calls.  The commit of a build keeps     *)
(* (history) the records its cursor read.                                  *)
(***************************************************************************)
\* BuildCommit, with the records read kept in reads.scanned
BuildCommitScan(b) ==
    /\ builds[b].state = "scanning"
    /\ ~MicrotasksPending
    /\ nameIndex' = ScanAndIndex(nameIndex, builds[b].parent)
    /\ FinishBuild(b)
    /\ reads' = [reads EXCEPT
                    !.scanned[builds[b].parent] =
                        {r \in store : r.parent_id = builds[b].parent},
                    !.moved[builds[b].parent] = {}]
    /\ UNCHANGED calls
    /\ UNCHANGED <<schema, search, boot, store, byParentId, batch, pager, nav, ingest, viewVars>>

\* insertFiles([r]), with (history) the id kept when r is stored under
\* another parent than one whose build read it
InsertMove(r) ==
    /\ ~MicrotasksPending
    /\ ~TxActive
    /\ InsertFilesTx(<<r>>)
    /\ reads' = [reads EXCEPT !.moved =
                    [p \in IdxParents |->
                        IF p # r.parent_id /\ HasId(reads.scanned[p], r.id)
                        THEN @[p] \cup {r.id} ELSE @[p]]]
    /\ UNCHANGED <<schema, search, boot, idxVars, batch, pager, nav, ingest, viewVars>>

InitBuild ==
    /\ store = SeedRecords
    /\ byParentId = {<<r.parent_id, r.id>> : r \in SeedRecords}
    /\ nameIndex = {}
    /\ IdxIdle
    /\ batch = NoBatch
    /\ pager = NoPager
    /\ nav = NoNav
    /\ ingest = NoIngest
    /\ reads = NoReads /\ schema = CurrentSchema /\ search = NoSearch /\ boot = NoBoot
    /\ ViewIdle

NextBuild ==
    \/ \E p \in IdxParents : EnsureCall(1, p)
    \/ \E b \in 1..Len(builds) : BuildOpenOk(b)
    \/ \E b \in 1..Len(builds) : BuildCommitScan(b)
    \/ Resume(1)
    \/ Return(1)
    \/ \E r \in SearchItems : InsertMove(r)
    \/ \E id \in Ids : DeleteFilesByIds(<<id>>)

SpecBuild == InitBuild /\ [][NextBuild]_vars

\* record r has one posting for each token of its name, each carrying p
PostedUnder(r, p) ==
    \A t \in Range(buildTrigrams(r.name)) :
        /\ Cardinality({x \in nameIndex :
                           x.token = t /\ x.fileId = r.id}) = 1
        /\ [token |-> t, fileId |-> r.id, parent_id |-> p] \in nameIndex

C31_SearchSurvivesBuildFailure ==
    \A c \in Callers :
        (/\ calls[c].kind = "search"
         /\ calls[c].build # 0
         /\ builds[calls[c].build].state = "rejected"
         /\ calls[c].pc # "awaiting")
            => calls[c].ens = "resolved"

(***************************************************************************)
(* FileTable's filter: the text, the effects that follow a change of the   *)
(* text or of the currentParentId prop, the debounced call and the         *)
(* searches in flight.                                                     *)
(***************************************************************************)
\* the effect of lines 383-405 with the values of one render
FilterEffect(s, normalizedFilter, parentId) ==
    IF Len(normalizedFilter) < TRIGRAM_SIZE
    THEN [s EXCEPT !.isSearching = FALSE]
    ELSE [s EXCEPT !.requestId = @ + 1, !.isSearching = TRUE,
                   !.debounced = <<[q |-> normalizedFilter, p |-> parentId,
                                    id |-> s.requestId + 1]>>]

\* the input's onChange: the render with the new text runs the effect when
\* the trimmed text has changed
SetFilterText(text) ==
    /\ text # search.text
    /\ search.requestId < MaxRequests
    /\ IF Trim(text) = Trim(search.text)
       THEN /\ search' = [search EXCEPT !.text = text]
            /\ UNCHANGED <<filteredFiles, filterActive>>
       ELSE /\ search' = FilterEffect([search EXCEPT !.text = text],
                                      Trim(text), effectiveParentId)
            /\ IF Len(Trim(text)) < TRIGRAM_SIZE
               THEN filteredFiles' = <<>> /\ filterActive' = FALSE
               ELSE UNCHANGED <<filteredFiles, filterActive>>
    /\ UNCHANGED <<schema, boot, dbVars, idxVars, clientVars, files, totalCount,
                   clipboard, clipboardOperation, currentParentId,
                   tableParentId, selectedRows, ui>>

\* the timer of debounce fires: runIndexedSearch is called and awaits
DebounceFire ==
    /\ search.debounced # <<>>
    /\ search' = [search EXCEPT !.debounced = <<>>,
                                !.inflight = @ \cup {search.debounced[1]}]
    /\ UNCHANGED <<schema, boot, dbVars, idxVars, clientVars, viewVars>>

\* line 360 left out: every result is applied
IsCurrentAlways(requestId) == TRUE

\* line 360: requestId !== searchRequestIdRef.current
IsCurrent(requestId) == requestId = search.requestId

\* searchFilesByNameAndParentId resolves and runIndexedSearch goes on
SearchDone(r) ==
    /\ r \in search.inflight
    /\ EnsureIndexed(r.p)
    /\ IF IsCurrent(r.id)
       THEN /\ filteredFiles' = SearchResults(store, nameIndex', r.q, r.p,
                                              SEARCH_LIMIT)
            /\ filterActive' = TRUE
            /\ search' = [search EXCEPT !.inflight = @ \ {r},
                                        !.isSearching = FALSE,
                                        !.applied = r.id]
       ELSE /\ search' = [search EXCEPT !.inflight = @ \ {r},
                                        !.dropped = TRUE]
            /\ UNCHANGED <<filteredFiles, filterActive>>
    /\ UNCHANGED <<schema, boot, store, byParentId, indexingInFlight, builds, calls,
                   clientVars, files, totalCount, clipboard,
                   clipboardOperation, currentParentId, tableParentId,
                   selectedRows, ui>>

\* loadParent(p) run to its end.  When the table's prop changes, the commit
\* runs the reset effect (lines 373-381) and then the filter effect with the
\* filter text of that render; the render that follows has an empty text and
\* runs the filter effect again when the text was not empty before.
FolderChange(p) ==
    /\ ui.pc = "idle"
    /\ p = Root \/ \E i \in 1..Len(activeFiles) : activeFiles[i].id = p
    /\ currentParentId' = p
    /\ totalCount' = countChildrenByParentId(byParentId, p)
    /\ files' = getFilesByParentId(store, byParentId, p, INITIAL_BATCH_SIZE, 0)
    /\ EnsureIndexed(p)
    /\ tableParentId' = IF tableParentId = Undefined THEN Undefined ELSE p
    /\ IF tableParentId' # tableParentId
       THEN /\ search.requestId + 2 <= MaxRequests
            /\ selectedRows' = {}
            /\ filteredFiles' = <<>>
            /\ filterActive' = FALSE
            /\ search' = [FilterEffect([search EXCEPT !.requestId = @ + 1],
                                       Trim(search.text), p)
                             EXCEPT !.text = <<>>, !.isSearching = FALSE]
       ELSE UNCHANGED <<search, selectedRows, filteredFiles, filterActive>>
    /\ UNCHANGED <<schema, boot, store, byParentId, indexingInFlight, builds, calls,
                   clientVars, clipboard, clipboardOperation, ui>>

(***************************************************************************)
(* SpecFilter: the filter over the tree of SpecView, with the table's      *)
(* prop unset or following the folder shown.                               *)
(***************************************************************************)
FilterTexts == {<<>>, <<"a", "b">>, <<"a", "b", "c">>, <<"c", "a", "b">>}

NextFilter ==
    \/ \E text \in FilterTexts : SetFilterText(text)
    \/ DebounceFire
    \/ \E r \in search.inflight : SearchDone(r)
    \/ \E p \in IdxParents : FolderChange(p)

SpecFilter == InitView /\ [][NextFilter]_vars

NoSearchPending == search.inflight = {} /\ search.debounced = <<>>

\* C32: whenever the filter text has fewer than three characters and no
\* search is debounced or in flight, the table shows the unfiltered page.
C32_ShortFilterShowsPage ==
    (Len(Trim(search.text)) < TRIGRAM_SIZE /\ NoSearchPending)
        => ~filterActive

\* C33: a search that resolves is applied when it is the request issued last
\* and leaves the list as it is otherwise; and when no search is debounced or
\* in flight and the filter text has three characters or more, the list shown
\* is the result of the request issued last, the search of that text.
C33_LatestSearchWins ==
    [][/\ \A r \in search.inflight : r \notin search'.inflight =>
             IF r.id = search.requestId
             THEN /\ filterActive'
                  /\ search'.applied = r.id
                  /\ filteredFiles' = SearchResults(store, nameIndex', r.q,
                                                    r.p, SEARCH_LIMIT)
             ELSE /\ filteredFiles' = filteredFiles
                  /\ filterActive' = filterActive
                  /\ search'.applied = search.applied
       /\ (/\ search'.inflight = {}
           /\ search'.debounced = <<>>
           /\ Len(Trim(search'.text)) >= TRIGRAM_SIZE) =>
             /\ filterActive'
             /\ search'.applied = search'.requestId
             /\ filteredFiles' = SearchResults(store', nameIndex',
                                               Trim(search'.text),
                                               effectiveParentId',
                                               SEARCH_LIMIT)]_vars

\* the result of the request issued last is shown after the result of an
\* older request, which resolved later than it was superseded, was discarded
C33_Witness ==
    /\ NoSearchPending
    /\ search.dropped
    /\ search.text = <<"c", "a", "b">>
    /\ search.applied = search.requestId
    /\ search.applied >= 2
    /\ filterActive
    /\ filteredFiles # <<>>

(***************************************************************************)
(* C34: the loading flag covers the latest navigation: while the loadParent *)
(* call that drew the newest request id still awaits its count or its      *)
(* first page, isLoading is true, whatever superseded calls finish         *)
(* meanwhile.                                                              *)
(***************************************************************************)
C34_LoadingCoversLatest ==
    (/\ requestIdRef > 0
     /\ nav.loads[requestIdRef].pc \in {"count", "list"})
        => nav.isLoading

(***************************************************************************)
(* The bootstrap: the page decides from the record store whether to start  *)
(* the ingestion worker, and reports ready on the worker's complete        *)
(* message.  The store outlives the page; the worker does not.             *)
(***************************************************************************)
\* utils.ts 373-384, the try branch: count > 0
hasIndexedDBData(records) == Cardinality(records) > 0

\* lines 21-32: the worker is created and INIT_PARSE is posted to it
StartWorker ==
    /\ boot' = [boot EXCEPT !.pc = "ingesting"]
    /\ ingest' = [ingest EXCEPT !.pc = "idle"]

\* lines 9-14: the mount effect runs once and calls init()
BootStart ==
    /\ boot.pc = "idle"
    /\ boot.boots < MaxBoots
    /\ boot' = [boot EXCEPT !.pc = "checking", !.boots = @ + 1]
    /\ UNCHANGED <<schema, search, dbVars, idxVars, clientVars, viewVars>>

\* lines 14-32: hasIndexedDBData has counted the records
BootHasData ==
    /\ boot.pc = "checking"
    /\ IF hasIndexedDBData(store)
       THEN /\ boot' = [boot EXCEPT !.pc = "ready", !.isDbReady = TRUE]
            /\ UNCHANGED ingest
       ELSE StartWorker
    /\ UNCHANGED <<schema, search, dbVars, idxVars, batch, pager, nav, reads,
                   viewVars>>

\* utils.ts 380-383: openFileDB or the count failed, the answer is false
BootCheckFail ==
    /\ boot.pc = "checking"
    /\ StartWorker
    /\ UNCHANGED <<schema, search, dbVars, idxVars, batch, pager, nav, reads,
                   viewVars>>

\* lines 28-32: the next message of the worker is handled
OnMessage ==
    /\ boot.pc = "ingesting"
    /\ boot.delivered < Len(ingest.events)
    /\ boot' = [boot EXCEPT
                   !.delivered = @ + 1,
                   !.isDbReady =
                       @ \/ ingest.events[boot.delivered + 1].type = "complete"]
    /\ UNCHANGED <<schema, search, dbVars, idxVars, clientVars, viewVars>>

\* the page is closed and opened again: the hook's state is new, the worker
\* and its batchInsert are gone (lines 37-39 on unmount), the database stays
Reload ==
    /\ boot.pc # "idle"
    /\ boot.boots < MaxBoots
    /\ boot' = [NoBoot EXCEPT !.boots = boot.boots]
    /\ ingest' = [NoIngest EXCEPT !.pc = "off", !.source = ingest.source,
                                  !.rest = ingest.source]
    /\ batch' = [NoBatch EXCEPT !.stale = batch.stale]
    /\ UNCHANGED <<schema, search, dbVars, idxVars, pager, nav, reads,
                   viewVars>>

(***************************************************************************)
(* SpecBoot: page loads over an empty database, the worker under every     *)
(* chunking and every failure.  SpecBootFair adds that every step of the   *)
(* page and of the worker that stays possible is taken; a failure and a    *)
(* reload may or may not happen.                                           *)
(***************************************************************************)
InitBoot ==
    /\ store = {}
    /\ byParentId = {}
    /\ nameIndex = {}
    /\ IdxIdle
    /\ batch = NoBatch
    /\ pager = NoPager
    /\ nav = NoNav
    /\ \E src \in Sources : ingest = [NoIngest EXCEPT !.pc = "off",
                                                      !.source = src,
                                                      !.rest = src]
    /\ reads = NoReads /\ schema = CurrentSchema /\ search = NoSearch
    /\ boot = NoBoot
    /\ ViewIdle

NextBoot ==
    \/ BootStart
    \/ BootHasData
    \/ BootCheckFail
    \/ OnMessage
    \/ Reload
    \/ IngestStart
    \/ FetchOk
    \/ FetchFail
    \/ \E k \in 1..Len(ingest.rest) : ReadChunk(k)
    \/ ReadFail
    \/ BatchInsertTx
    \/ FlushReturn
    \/ ReadEnd
    \/ FinalReturn
    \/ FlushFail

SpecBoot == InitBoot /\ [][NextBoot]_vars

SpecBootFair ==
    /\ SpecBoot
    /\ WF_vars(BootStart) /\ WF_vars(BootHasData) /\ WF_vars(OnMessage)
    /\ WF_vars(IngestStart) /\ WF_vars(FetchOk)
    /\ WF_vars(\E k \in 1..Len(ingest.rest) : ReadChunk(k))
    /\ WF_vars(BatchInsertTx) /\ WF_vars(FlushReturn) /\ WF_vars(ReadEnd)
    /\ WF_vars(FinalReturn)

(***************************************************************************)
(* C35: the bootstrap reports the database ready only when the whole       *)
(* source has been ingested: whenever isDbReady is true, the store holds   *)
(* the record of every valid line of the source, also after a run that was *)
(* interrupted once a batch had been written.                              *)
(***************************************************************************)
C35_ReadyMeansIngested ==
    boot.isDbReady => StoreOf(ValidOf(SourceLines)) \subseteq store

(***************************************************************************)
(* C36: under fair scheduling every bootstrap leaves the not-ready state:  *)
(* a page load whose effect has run eventually reports ready (or is ended  *)
(* by the page being closed), also when the worker ends with a terminal    *)
(* error event.                                                            *)
(***************************************************************************)
C36_BootstrapTerminates ==
    (boot.pc = "checking") ~> (boot.isDbReady \/ boot.pc = "idle")

(***************************************************************************)
(* SpecPaste: copy, cut and paste into a folder whose first page is not    *)
(* all of it.  The root holds folder 1, record 2 and one record whose key  *)
(* comes after every key of folder 1; folder 1 holds two records more than *)
(* a first page.  One row is selected at a time, the table's prop follows  *)
(* the folder shown, no storage call fails.                                *)
(***************************************************************************)
FirstChild == MaxId + MaxCopies + 1
LastChild == FirstChild + INITIAL_BATCH_SIZE + 1
Beyond == LastChild + 1

PasteSeed == {Rec(1, Root, <<"A", "b", "c", "a">>), Rec(2, Root, <<"a">>),
              Rec(Beyond, Root, <<"b">>)}
                \cup {Rec(i, 1, <<"c">>) : i \in FirstChild..LastChild}
PasteRows == {2, FirstChild, Beyond}

\* loadMore run to its end: part_000 54-69
loadMore ==
    /\ ui.pc = "idle"
    /\ ~nav.loadingMoreRef
    /\ ~nav.isLoading
    /\ Len(files) < totalCount
    /\ files' = files \o getFilesByParentId(store, byParentId,
                                            currentParentId, BATCH_SIZE,
                                            Len(files))
    /\ UNCHANGED <<schema, search, boot, dbVars, idxVars, clientVars,
                   totalCount, clipboard, clipboardOperation, currentParentId,
                   tableParentId, selectedRows, filteredFiles, filterActive,
                   ui>>

InitPaste ==
    /\ store = PasteSeed
    /\ byParentId = {<<r.parent_id, r.id>> : r \in PasteSeed}
    /\ indexedParents = {ParentKey(Root)}
    /\ nameIndex = ScanAndIndex({}, Root)
    /\ indexingInFlight = [k \in IdxParents |-> 0]
    /\ builds = <<>>
    /\ calls = [c \in Callers |-> IdleCall]
    /\ batch = NoBatch
    /\ pager = NoPager
    /\ nav = NoNav
    /\ ingest = NoIngest
    /\ reads = NoReads /\ schema = CurrentSchema /\ search = NoSearch
    /\ boot = NoBoot
    /\ files = getFilesByParentId(store, byParentId, Root,
                                  INITIAL_BATCH_SIZE, 0)
    /\ totalCount = countChildrenByParentId(byParentId, Root)
    /\ clipboard = <<>>
    /\ clipboardOperation = "none"
    /\ currentParentId = Root
    /\ tableParentId = Root
    /\ selectedRows = {}
    /\ filteredFiles = <<>>
    /\ filterActive = FALSE
    /\ ui = NoUi

NextPaste ==
    \/ \E p \in IdxParents : ShowFolder(p)
    \/ \E id \in PasteRows : ContextMenu(id)
    \/ copySelected
    \/ cutSelected
    \/ PasteStart
    \/ PasteCutDelete
    \/ PasteInsert
    \/ loadMore

SpecPaste == InitPaste /\ [][NextPaste]_vars

PageIds == [i \in 1..Len(files) |-> files[i].id]

(***************************************************************************)
(* C37: the page stays a duplicate-free view of the folder across paste    *)
(* and paging: once no handler is running and the page length has reached  *)
(* totalCount, the page holds every child of the folder shown exactly      *)
(* once.                                                                   *)
(***************************************************************************)
C37_PageIsFolder ==
    (ui.pc = "idle" /\ Len(files) >= totalCount) =>
        /\ \A i, j \in 1..Len(files) : i # j => PageIds[i] # PageIds[j]
        /\ Range(PageIds) = Range(ChildIds(byParentId, currentParentId))

\* the parents met on the way up from record id, at most n steps
RECURSIVE AncestorsOf(_, _, _)
AncestorsOf(S, id, n) ==
    IF n = 0 \/ ~HasId(S, id) THEN {}
    ELSE {Get(S, id).parent_id} \cup AncestorsOf(S, Get(S, id).parent_id, n - 1)

(***************************************************************************)
(* C38: the hierarchy stays acyclic: after any sequence of cut and paste   *)
(* operations no stored record is its own parent or its own ancestor.      *)
(***************************************************************************)
C38_Acyclic ==
    \A r \in store : r.id \notin AncestorsOf(store, r.id, Cardinality(store))

(***************************************************************************)
(* SpecClip: the clipboard over the small tree, one row selected at a      *)
(* time, pasteClipboard run to its end with no storage failure.            *)
(***************************************************************************)
\* PasteSkipped without lines 42-45: an unset target parent is not tested
PasteSkippedNoParentTest(operation, parentId) == operation = "none"

\* fileStore.ts 60-64 and lines 40-45: pasteFiles() gave null, or the target
\* parent is not set
PasteSkipped(operation, parentId) ==
    operation = "none" \/ parentId = Undefined

\* lines 34-86 as one step
pasteClipboard ==
    /\ ui.pc = "idle"
    /\ RowSelected
    /\ ui.pasted < MaxPastes
    /\ IF PasteSkipped(clipboardOperation, tableParentId)
       THEN /\ ui' = [ui EXCEPT !.pasted = @ + 1, !.last = "skipped"]
            /\ UNCHANGED <<store, byParentId, nameIndex, files, totalCount,
                           clipboard, clipboardOperation>>
       ELSE IF clipboardOperation = "cut"
       THEN LET movedItems == [i \in 1..Len(clipboard) |->
                                  makeMove(clipboard[i], tableParentId)]
                inCurrent(m) == \E i \in 1..Len(files) : files[i].id = m.id
                notInCurrent(m) == ~inCurrent(m)
                itemsToAdd == SelectSeq(movedItems, notInCurrent)
                deleted == DeleteAll(Db, [i \in 1..Len(clipboard) |->
                                             clipboard[i].id])
                after == PutAll(deleted, movedItems)
            IN /\ store' = after.files
               /\ byParentId' = after.byParentId
               /\ nameIndex' = updateNameIndexForItems(nameIndex, movedItems)
               /\ files' = [i \in 1..Len(files) |->
                               FindMoved(movedItems, files[i])] \o itemsToAdd
               /\ totalCount' = totalCount + Len(itemsToAdd)
               /\ clipboard' = <<>>
               /\ clipboardOperation' = "none"
               /\ ui' = [ui EXCEPT !.pasted = @ + 1, !.last = "cut"]
       ELSE LET copiedItems == [i \in 1..Len(clipboard) |->
                                   makeCopy(clipboard[i], MaxId + ui.copies + i,
                                            tableParentId)]
            IN /\ InsertFilesTx(copiedItems)
               /\ files' = files \o copiedItems
               /\ totalCount' = totalCount + Len(copiedItems)
               /\ UNCHANGED <<clipboard, clipboardOperation>>
               /\ ui' = [ui EXCEPT !.pasted = @ + 1, !.last = "copy",
                                   !.copies = @ + Len(clipboard)]
    /\ UNCHANGED <<schema, search, boot, idxVars, clientVars, currentParentId,
                   tableParentId, selectedRows, filteredFiles, filterActive>>

NextClip ==
    \/ \E p \in IdxParents : ShowFolder(p)
    \/ \E id \in 1..(MaxId + MaxPastes) : ContextMenu(id)
    \/ copySelected
    \/ cutSelected
    \/ pasteClipboard

SpecClip == InitView /\ [][NextClip]_vars

(***************************************************************************)
(* C39: the clipboard's lifecycle.  A paste with an empty clipboard or an  *)
(* unset target parent changes neither the store, the postings, the page   *)
(* nor totalCount, and leaves the clipboard as it is.  A cut-paste clears   *)
(* the clipboard and its operation, so the paste after it is one of the    *)
(* first kind.  A copy-paste keeps the clipboard and its operation and      *)
(* adds one record per clipboard item, each with an id that no stored      *)
(* record has, the second and later pastes of one clipboard included.      *)
(***************************************************************************)
C39_ClipboardLifecycle ==
    [][ui'.pasted # ui.pasted =>
          /\ (clipboardOperation = "none" \/ tableParentId = Undefined) =>
                UNCHANGED <<store, byParentId, nameIndex, files, totalCount,
                            clipboard, clipboardOperation>>
          /\ (clipboardOperation = "cut" /\ tableParentId # Undefined) =>
                /\ clipboard' = <<>>
                /\ clipboardOperation' = "none"
                /\ PasteSkipped(clipboardOperation', tableParentId')
          /\ (clipboardOperation = "copy" /\ tableParentId # Undefined) =>
                LET made == store' \ store
                IN /\ UNCHANGED <<clipboard, clipboardOperation>>
                   /\ clipboard # <<>>
                   /\ store \subseteq store'
                   /\ Cardinality({r.id : r \in made}) = Len(clipboard)
                   /\ \A r \in made : ~HasId(store, r.id)
                   /\ Len(files') = Len(files) + Len(clipboard)
                   /\ totalCount' = totalCount + Len(clipboard)
      ]_vars

\* one clipboard was pasted twice as copies, a cut-paste has emptied the
\* clipboard since, and the paste after it was skipped
C39_Witness ==
    /\ ui.last = "skipped"
    /\ ui.copies = 2
    /\ clipboardOperation = "none"
    /\ tableParentId # Undefined
    /\ Cardinality(store) = MaxId + 2
====
